---------------------------- MODULE Spec2Model ----------------------------
(***************************************************************************)
(* Task-graph scheduler of iree/task/task.c: task bookkeeping, retire and  *)
(* discard, the simple task kinds (NOP, CALL, BARRIER, FENCE, WAIT) and    *)
(* the DISPATCH slice/shard issue and execution.                           *)
(*                                                                         *)
(* Fifteen specifications share the module:                                *)
(*   Spec          a wired task graph drained by a pool of workers         *)
(*   FairSpec      Spec with weakly fair workers, for progress             *)
(*   SpecShard     one sharded DISPATCH and its SHARD tasks                *)
(*   SpecSlice     slice-mode issue of one DISPATCH                        *)
(*   SpecDispatch  issue in either mode, indirect or flagged ABORTED       *)
(*   SpecOrder     a sharded DISPATCH and the workers its tasks run on     *)
(*   SpecExecute   a DISPATCH of either mode whose slices/shards execute   *)
(*   SpecNested    a CALL whose closure submits nested tasks               *)
(*   SpecAffinity  issue of a DISPATCH with an affinity set                *)
(*   SpecRetire    a graph run or a dispatch run: every entry to retire    *)
(*   SpecPool      a DISPATCH issued from a pool that may run out          *)
(*   SpecCount     issue with counts whose product may not fit the word    *)
(*   SpecWrap      a sharded DISPATCH of nearly a full word of tiles       *)
(*   SpecSliceRun  slice-mode issue and the tile loops of the slices       *)
(*   SpecBarrier   the two ways of setting up a BARRIER, side by side      *)
(***************************************************************************)
EXTENDS Integers, Sequences, FiniteSets, TLC

(***************************************************************************)
(* Bounds of the model.                                                    *)
(***************************************************************************)
\* workers of the executor draining the graph
NumWorkers == 2
\* CALL tasks of the linear chain shape
ChainLen == 3
\* most tasks the closure of the CALL of the nested shape wires
MaxNested == 2
\* dependents of the BARRIER of the diamond shape
FanOut == 2
\* largest workgroup count per dimension of the sharded DISPATCH
MaxCount == 2
\* largest worker count of the post batch the shards are posted to
MaxShardWorkers == 2
\* largest configured IREE_TASK_DISPATCH_MAX_TILES_PER_SHARD_RESERVATION
MaxReservation == 2
\* most tiles (workgroups) of the sharded DISPATCH
MaxTiles == 4
\* most tiles of a DISPATCH issued in either mode, flagged or indirect
MaxIssueTiles == 2
\* bytes of local memory every worker provides
WorkerLocalMemory == 1
\* largest workgroup count per dimension of the sliced DISPATCH
MaxSliceCount == 3
\* largest configured IREE_TASK_DISPATCH_TILES_PER_SLICE_{X,Y,Z}
MaxTilesPerSlice == 2
\* most slots of a slice/shard pool that can run out during an issue
MaxPoolSlots == 1
\* the number of values of an unsigned word of the model: the uint32_t of
\* the source is scaled down to 8 bits, the model checker's integers
\* cannot hold 2^32
WordModulus == 256
\* longest list of dependent tasks a BARRIER is set up with, and the
\* number of tasks the list draws from
MaxDependents == 3
\* most runs of one tile that the model follows
MaxTileRuns == 2

(***************************************************************************)
(* Status values. iree_status_t is an opaque pointer; OK is the null       *)
(* status, E1 and E2 are two distinguishable user failures. ABORTED is the *)
(* status code handed to cleanup functions.                                *)
(***************************************************************************)
OK == "OK"
ABORTED == "ABORTED"
Failures == {"E1", "E2"}
StatusValues == {OK} \cup Failures

iree_status_is_ok(status) == status = OK

(***************************************************************************)
(* The submitted graphs. Every graph has one scope and ends in a FENCE.    *)
(*   chain    1 -> 2 -> ... -> ChainLen -> FENCE          (CALLs)          *)
(*   join     1 -> 3, 2 -> 3, 3 -> 4 -> FENCE             (CALLs)          *)
(*   diamond  1 -> BARRIER{3..}, each dependent -> FENCE  (CALLs)          *)
(*   mixed    NOP -> 3, WAIT -> 3, 3(CALL) -> FENCE                        *)
(*   fanout   1 -> BARRIER 3 {4, 5}, 2 -> 5, 4 -> FENCE, 5 -> FENCE        *)
(*   nested   1 -> FENCE; the closure of 1 wires CALLs 2.. with 1 as their *)
(*            completion task (only in the specification SpecNested)       *)
(* completion is the completion_task edge (0 = NULL), dependents the       *)
(* dependent_tasks array of a BARRIER.                                     *)
(***************************************************************************)
Shapes == {"chain", "join", "diamond", "mixed", "fanout"}

NumTasks(s) ==
  CASE s = "chain" -> ChainLen + 1
    [] s = "join" -> 5
    [] s = "diamond" -> FanOut + 3
    [] s = "mixed" -> 4
    [] s = "fanout" -> 6
    [] s = "nested" -> MaxNested + 2

TaskIds(s) == 1..NumTasks(s)

TaskType(s, t) ==
  CASE s = "chain" -> IF t <= ChainLen THEN "CALL" ELSE "FENCE"
    [] s = "join" -> IF t <= 4 THEN "CALL" ELSE "FENCE"
    [] s = "diamond" -> IF t = 2 THEN "BARRIER"
                        ELSE IF t = FanOut + 3 THEN "FENCE" ELSE "CALL"
    [] s = "mixed" -> <<"NOP", "WAIT", "CALL", "FENCE">>[t]
    [] s = "fanout" -> <<"CALL", "CALL", "BARRIER", "CALL", "CALL", "FENCE">>[t]
    [] s = "nested" -> IF t <= MaxNested + 1 THEN "CALL" ELSE "FENCE"

WiredCompletion(s, t) ==
  CASE s = "chain" -> IF t <= ChainLen THEN t + 1 ELSE 0
    [] s = "join" -> <<3, 3, 4, 5, 0>>[t]
    [] s = "diamond" -> IF t = 1 THEN 2
                        ELSE IF t = 2 \/ t = FanOut + 3 THEN 0 ELSE FanOut + 3
    [] s = "mixed" -> <<3, 3, 4, 0>>[t]
    [] s = "fanout" -> <<3, 5, 0, 6, 6, 0>>[t]
    [] s = "nested" -> IF t = 1 THEN MaxNested + 2 ELSE 0

\* the tasks a closure may wire while it runs: the CALL of the nested shape
\* wires, on its first invocation, any number of them
NestedChoices(s, t, calls) ==
  IF s = "nested" /\ t = 1 /\ calls = 0 THEN 0..MaxNested ELSE {0}

\* the n tasks the closure wires with the CALL as their completion task
NestedTasks(n) == 2..(n + 1)

DependentTasks(s, t) ==
  IF s = "diamond" /\ t = 2 THEN [i \in 1..FanOut |-> i + 2]
  ELSE IF s = "fanout" /\ t = 3 THEN <<4, 5>>
  ELSE <<>>

VARIABLES
  shape,                     \* the submitted graph
  pending_dependency_count,  \* task -> header.pending_dependency_count
  completion_task,           \* task -> header.completion_task (0 = NULL)
  flags,                     \* task -> header.flags (a set of flag names)
  call_status,               \* task -> iree_task_call_t.status slot
  queued,                    \* task -> times on a ready queue
  pending_submission,        \* worker -> task -> times in its pending submission
  permanent_status,          \* scope permanent status
  pending_submissions,       \* scope outstanding count (begin/end)
  pc,                        \* worker -> position
  cur,                       \* worker -> task being processed (0 = none)
  l_completion,              \* worker -> iree_task_retire local completion_task
  l_ready,                   \* worker -> iree_task_retire completion_task_ready
  l_status,                  \* worker -> status passed to iree_task_retire
  l_index,                   \* worker -> loop index of iree_task_barrier_retire
  discard_worklist,          \* worker -> iree_task_retire local discard_worklist
  cleanup_log,               \* task -> status codes its cleanup_fn received
  closure_calls,             \* task -> invocations of its closure
  closure_result,            \* task -> what its closure returned ("none" before)
  retire_log,                \* task -> statuses iree_task_retire was called with
  discard_count,             \* task -> entries of iree_task_discard
  scope_end_calls,           \* task -> iree_task_scope_end calls it made
  fail_log,                  \* statuses passed to iree_task_scope_fail, in order
  failed_tasks               \* tasks whose failing retire has completed

gvars == <<shape, pending_dependency_count, completion_task, flags, call_status,
           queued, pending_submission, permanent_status, pending_submissions, pc, cur, l_completion,
           l_ready, l_status, l_index, discard_worklist, cleanup_log,
           closure_calls, closure_result, retire_log, discard_count,
           scope_end_calls, fail_log, failed_tasks>>

VARIABLES
  d_pc,                   \* DISPATCH position: issue, slicing, running, ready,
                          \* retired, discarded
  issue_mode,             \* "slice" or "shard": which issue function runs
  d_flags,                \* the DISPATCH's header.flags
  workgroup_count,        \* dispatch_task->workgroup_count.value
  workgroup_count_ptr,    \* the counts dispatch_task->workgroup_count.ptr reads
  worker_count,           \* iree_task_post_batch_worker_count(post_batch)
  max_tiles_per_reservation,  \* the configured tuning constant
  local_memory_size,      \* dispatch_task->local_memory_size
  local_memory_length,    \* local_memory.data_length of every worker
  pool_slots,             \* tasks the slice/shard pool can supply to the issue
  tile_index,             \* shared_state->tile_index, the atomic cursor
  tile_count,             \* shared_state->tile_count
  tiles_per_reservation,  \* shared_state->tiles_per_reservation
  d_pending,              \* the DISPATCH's pending_dependency_count
  d_status,               \* dispatch_task->status slot
  d_retire_status,        \* status the DISPATCH retired with ("none" before)
  d_cleanup,              \* status codes the DISPATCH's cleanup_fn received
  d_scope_status,         \* permanent status of the DISPATCH's scope
  c_pending,              \* pending_dependency_count of its completion task
  c_queued,               \* enqueues of the completion task
  c_flags,                \* header.flags of the completion task
  c_discards,             \* discards of the completion task
  shard,                  \* shard -> [pc, tile_base, tile, status (the local
                          \* of the tile loop), failed (a tile of it failed),
                          \* retired (the status it retired with)]
  tile_calls,             \* tile index -> closure invocations
  xyz_calls,              \* workgroup_xyz -> closure invocations
  tiles_per_slice,        \* the configured TILES_PER_SLICE_{X,Y,Z}
  slice_xyz,              \* loop variables slice_x, slice_y, slice_z of issue
  slices,                 \* the SLICE tasks created: [base, range, worker,
                          \* pc, xyz (the loop variables x, y, z), status
                          \* (the local of the tile loop), failed, retired]
  worker_index,           \* issue_sliced local worker_index
  worker_slice_count,     \* issue_sliced local worker_slice_count
  issue_worker,           \* the worker that executes the dispatch's issue
  worker_offset,          \* issue_sharded local worker_offset
  begin_log,              \* worker -> the tasks it began to execute, in
                          \* order (0 is the dispatch, s > 0 a shard)
  affinity_set,           \* dispatch_task->header.affinity_set: the worker
                          \* indices (from 0) eligible to run its subtasks
  tile_memory,            \* the lengths of the local_memory spans that the
                          \* tile contexts handed to the closure had
  task_pool,              \* dispatch (0), shard or slice -> what happened to
                          \* its allocation: acquire, cleanup_fn, release,
  barrier_setup           \* the two ways of setting up one BARRIER, side by
                          \* side (at rest outside the barrier specification)

lvars == <<tiles_per_slice, slice_xyz, slices, worker_index,
           worker_slice_count>>

\* what a worker or issue never writes after the dispatch was set up
dconf == <<issue_mode, workgroup_count_ptr, worker_count,
           max_tiles_per_reservation, local_memory_size,
           local_memory_length, pool_slots>>

\* what the retire of the dispatch writes
dtask == <<d_status, d_retire_status, d_cleanup, d_scope_status, c_pending,
           c_queued, c_flags, c_discards>>

svars == <<d_pc, d_flags, workgroup_count, dconf, tile_index, tile_count,
           tiles_per_reservation, d_pending, dtask, shard, tile_calls,
           xyz_calls>>

\* where the dispatch and its shards execute
wvars == <<issue_worker, worker_offset, begin_log, affinity_set>>

vars == <<gvars, svars, lvars, wvars, tile_memory, task_pool, barrier_setup>>

Workers == 1..NumWorkers
Tasks == TaskIds(shape)

RECURSIVE SeqSum(_)
SeqSum(s) == IF s = <<>> THEN 0 ELSE Head(s) + SeqSum(Tail(s))

RECURSIVE Reverse(_)
Reverse(s) == IF s = <<>> THEN <<>> ELSE Append(Reverse(Tail(s)), Head(s))

Occurrences(s, x) == Cardinality({i \in DOMAIN s : s[i] = x})

\* mutant: wiring increments the target once however many edges reach it
WiredPendingCount_Once(s, t) ==
  IF \E u \in TaskIds(s) :
       WiredCompletion(s, u) = t \/ Occurrences(DependentTasks(s, u), t) > 0
    THEN 1 ELSE 0
(***************************************************************************)
(* Wiring. iree_task_set_completion_task and iree_task_barrier_initialize  *)
(* each add one to the target's pending_dependency_count per edge.         *)
(***************************************************************************)
WiredPendingCount(s, t) ==
  Cardinality({u \in TaskIds(s) : WiredCompletion(s, u) = t})
  + SeqSum([u \in TaskIds(s) |-> Occurrences(DependentTasks(s, u), t)])

\* tasks that are submitted with the graph: those ready when it is wired,
\* but not the ones a closure will create
Submitted(s, t) ==
  IF s = "nested" THEN t = 1 ELSE WiredPendingCount(s, t) = 0

(***************************************************************************)
(* Scope (collaborator): begin/end count outstanding fences, fail is a     *)
(* compare-and-swap of the permanent status from OK.                       *)
(***************************************************************************)
iree_task_scope_fail(current, status) ==
  IF current = OK THEN status ELSE current

iree_task_scope_end(count) == count - 1

\* iree_task_submission_enqueue: the task joins a pending submission
iree_task_submission_enqueue(q, t) == [q EXCEPT ![t] = @ + 1]

(***************************************************************************)
(* iree_task_try_set_status: CAS of a task-local status slot, first wins.  *)
(***************************************************************************)
\* mutant: a later failure overwrites the slot
iree_task_try_set_status_LastWins(slot, new_status) ==
  IF iree_status_is_ok(new_status) THEN slot ELSE new_status

iree_task_try_set_status(slot, new_status) ==
  IF iree_status_is_ok(new_status) THEN slot
  ELSE IF slot = OK THEN new_status ELSE slot

InitGraphOf(shapes) ==
  /\ shape \in shapes
  /\ pending_dependency_count = [t \in Tasks |-> WiredPendingCount(shape, t)]
  /\ completion_task = [t \in Tasks |-> WiredCompletion(shape, t)]
  /\ flags = [t \in Tasks |-> {}]
  /\ call_status = [t \in Tasks |-> OK]
  /\ queued = [t \in Tasks |-> IF Submitted(shape, t) THEN 1 ELSE 0]
  /\ pending_submission = [w \in Workers |-> [t \in Tasks |-> 0]]
  /\ permanent_status = OK
  /\ pending_submissions =
       Cardinality({t \in Tasks : TaskType(shape, t) = "FENCE"})
  /\ pc = [w \in Workers |-> "idle"]
  /\ cur = [w \in Workers |-> 0]
  /\ l_completion = [w \in Workers |-> 0]
  /\ l_ready = [w \in Workers |-> FALSE]
  /\ l_status = [w \in Workers |-> OK]
  /\ l_index = [w \in Workers |-> 0]
  /\ discard_worklist = [w \in Workers |-> <<>>]
  /\ cleanup_log = [t \in Tasks |-> <<>>]
  /\ closure_calls = [t \in Tasks |-> 0]
  /\ closure_result = [t \in Tasks |-> "none"]
  /\ retire_log = [t \in Tasks |-> <<>>]
  /\ discard_count = [t \in Tasks |-> 0]
  /\ scope_end_calls = [t \in Tasks |-> 0]
  /\ fail_log = <<>>
  /\ failed_tasks = {}

InitGraph == InitGraphOf(Shapes)

(***************************************************************************)
(* Helpers shared by the worker steps.                                     *)
(***************************************************************************)
Idle(w) ==
  /\ pc' = [pc EXCEPT ![w] = "idle"]
  /\ cur' = [cur EXCEPT ![w] = 0]

\* the worker is done with its task: what its pending submission holds is
\* merged into the ready queues (the flush point of the worker loop)
FlushSubmission(w, submission) ==
  /\ queued' = [t \in Tasks |-> queued[t] + submission[t]]
  /\ pending_submission' =
       [pending_submission EXCEPT ![w] = [t \in Tasks |-> 0]]

\* a call of iree_task_retire(task, pending_submission, status)
EnterRetire(w, status) ==
  /\ pc' = [pc EXCEPT ![w] = "retire"]
  /\ l_status' = [l_status EXCEPT ![w] = status]
  /\ retire_log' = [retire_log EXCEPT ![cur[w]] = Append(@, status)]

\* iree_task_cleanup: the cleanup_fn receives the status code. Tasks set up
\* by iree_task_initialize have pool = NULL and are not released to a pool.
iree_task_cleanup(log, t, status_code) ==
  [log EXCEPT ![t] = Append(@, status_code)]

\* mutant: any positive prior count is taken for the last dependency
CompletionTaskReady_AnyPrior(completion, prior) == completion # 0 /\ prior >= 1

\* mutant: the fetch_sub result is compared with the new value, not the prior
CompletionTaskReady_NewValue(completion, prior) == completion # 0 /\ prior = 0

\* iree_task_retire: the completion task became ready iff the fetch_sub
\* returned the prior value 1.
CompletionTaskReady(completion, prior) == completion # 0 /\ prior = 1

\* mutant: the scope is failed with the cleanup code instead of the status
ScopeFailArgument_CleanupCode(status) == ABORTED

\* iree_task_retire: the failing status itself is handed to the scope
ScopeFailArgument(status) == status

\* iree_task_retire: the status code given to the retiring task's cleanup
RetireCleanupCode(status) == IF iree_status_is_ok(status) THEN OK ELSE ABORTED

\* mutant: the completion task of a discarded task is not pushed
DiscardPushes_NoCompletion(completion, dependents) == Reverse(dependents)

\* iree_task_discard: what it pushes to the front of the worklist, the
\* completion task first and then each BARRIER dependent (push_front each).
DiscardPushes(completion, dependents) ==
  Reverse(dependents) \o (IF completion # 0 THEN <<completion>> ELSE <<>>)

\* iree_task_discard: a discarded FENCE ends its scope
DiscardEndsScope(type) == type = "FENCE"

(***************************************************************************)
(* Worker loop (collaborator): an idle worker takes any queued task.       *)
(***************************************************************************)
worker_pop(w) ==
  /\ pc[w] = "idle"
  /\ \E t \in Tasks :
       /\ queued[t] > 0
       /\ queued' = [queued EXCEPT ![t] = @ - 1]
       /\ cur' = [cur EXCEPT ![w] = t]
  /\ pc' = [pc EXCEPT ![w] = "execute"]
  /\ l_index' = [l_index EXCEPT ![w] = 0]
  /\ UNCHANGED <<shape, pending_submission, pending_dependency_count, completion_task, flags,
                 call_status, permanent_status, pending_submissions,
                 l_completion, l_ready, l_status, discard_worklist,
                 cleanup_log, closure_calls, closure_result, retire_log,
                 discard_count, scope_end_calls, fail_log, failed_tasks>>

\* iree_task_nop_retire
iree_task_nop_retire(w) ==
  /\ pc[w] = "execute"
  /\ TaskType(shape, cur[w]) = "NOP"
  /\ EnterRetire(w, OK)
  /\ UNCHANGED <<shape, pending_submission, pending_dependency_count, completion_task, flags,
                 call_status, queued, permanent_status, pending_submissions,
                 cur, l_completion, l_ready, l_index, discard_worklist,
                 cleanup_log, closure_calls, closure_result, discard_count,
                 scope_end_calls, fail_log, failed_tasks>>

\* mutant: the CALL retires at the end of every execution
CallRetires_Always(pending) == TRUE

\* iree_task_call_execute: the task retires when the pending dependency
\* count it loads after the closure is zero
CallRetires(pending) == pending = 0

\* iree_task_call_execute: unless flagged ABORTED the closure runs and a
\* failure is stashed in the status slot; the task retires when no
\* dependency is pending, with the status exchanged out of the slot.
iree_task_call_execute(w) ==
  /\ pc[w] = "execute"
  /\ TaskType(shape, cur[w]) = "CALL"
  /\ LET t == cur[w]
         aborted == "ABORTED" \in flags[t]
     IN \E r \in (IF aborted THEN {OK} ELSE StatusValues),
           n \in (IF aborted THEN {0}
                  ELSE NestedChoices(shape, t, closure_calls[t])) :
          LET slot == IF aborted THEN call_status[t]
                      ELSE iree_task_try_set_status(call_status[t], r)
              submission == [u \in Tasks |->
                               IF u \in NestedTasks(n)
                                 THEN pending_submission[w][u] + 1
                                 ELSE pending_submission[w][u]]
          IN /\ pending_dependency_count' =
                  [pending_dependency_count EXCEPT ![t] = @ + n]
             /\ completion_task' =
                  [u \in Tasks |-> IF u \in NestedTasks(n) THEN t
                                   ELSE completion_task[u]]
             /\ closure_calls' =
                  IF aborted THEN closure_calls
                  ELSE [closure_calls EXCEPT ![t] = @ + 1]
             /\ closure_result' =
                  IF aborted THEN closure_result
                  ELSE [closure_result EXCEPT ![t] = r]
             /\ IF CallRetires(pending_dependency_count'[t])
                  THEN /\ call_status' = [call_status EXCEPT ![t] = OK]
                       /\ EnterRetire(w, slot)
                       /\ UNCHANGED <<cur, queued, pending_submission>>
                  ELSE /\ call_status' = [call_status EXCEPT ![t] = slot]
                       /\ Idle(w)
                       /\ FlushSubmission(w, submission)
                       /\ UNCHANGED <<l_status, retire_log>>
  /\ UNCHANGED <<shape, flags,
                 permanent_status, pending_submissions, l_completion,
                 l_ready, l_index, discard_worklist, cleanup_log,
                 discard_count, scope_end_calls, fail_log, failed_tasks>>

\* mutant: every dependent is enqueued whatever its prior count was
DependentTaskReady_Always(prior) == TRUE

\* iree_task_barrier_retire: a dependent became ready iff the fetch_sub
\* returned the prior value 1
DependentTaskReady(prior) == prior = 1

\* iree_task_barrier_retire, one iteration of its loop: the dependents are
\* walked in reverse, each is decremented and enqueued if it became ready.
iree_task_barrier_retire_step(w) ==
  /\ pc[w] = "execute"
  /\ TaskType(shape, cur[w]) = "BARRIER"
  /\ LET deps == DependentTasks(shape, cur[w])
         count == Len(deps)
     IN /\ l_index[w] < count
        /\ LET d == deps[count - l_index[w]]
               prior == pending_dependency_count[d]
           IN /\ pending_dependency_count' =
                   [pending_dependency_count EXCEPT ![d] = @ - 1]
              /\ pending_submission' =
                   IF DependentTaskReady(prior)
                     THEN [pending_submission EXCEPT ![w] =
                             iree_task_submission_enqueue(@, d)]
                     ELSE pending_submission
        /\ l_index' = [l_index EXCEPT ![w] = @ + 1]
  /\ UNCHANGED <<shape, queued, completion_task, flags, call_status, permanent_status,
                 pending_submissions, pc, cur, l_completion, l_ready, l_status,
                 discard_worklist, cleanup_log, closure_calls, closure_result,
                 retire_log, discard_count, scope_end_calls, fail_log,
                 failed_tasks>>

\* iree_task_barrier_retire, after the loop
iree_task_barrier_retire(w) ==
  /\ pc[w] = "execute"
  /\ TaskType(shape, cur[w]) = "BARRIER"
  /\ l_index[w] >= Len(DependentTasks(shape, cur[w]))
  /\ EnterRetire(w, OK)
  /\ UNCHANGED <<shape, pending_submission, pending_dependency_count, completion_task, flags,
                 call_status, queued, permanent_status, pending_submissions,
                 cur, l_completion, l_ready, l_index, discard_worklist,
                 cleanup_log, closure_calls, closure_result, discard_count,
                 scope_end_calls, fail_log, failed_tasks>>

\* iree_task_fence_retire
iree_task_fence_retire(w) ==
  /\ pc[w] = "execute"
  /\ TaskType(shape, cur[w]) = "FENCE"
  /\ pending_submissions' = iree_task_scope_end(pending_submissions)
  /\ scope_end_calls' = [scope_end_calls EXCEPT ![cur[w]] = @ + 1]
  /\ EnterRetire(w, OK)
  /\ UNCHANGED <<shape, pending_submission, pending_dependency_count, completion_task, flags,
                 call_status, queued, permanent_status, cur, l_completion,
                 l_ready, l_index, discard_worklist, cleanup_log,
                 closure_calls, closure_result, discard_count, fail_log,
                 failed_tasks>>

\* iree_task_wait_check_condition (always completed) then
\* iree_task_wait_retire
iree_task_wait_retire(w) ==
  /\ pc[w] = "execute"
  /\ TaskType(shape, cur[w]) = "WAIT"
  /\ flags' = [flags EXCEPT ![cur[w]] = @ \cup {"WAIT_COMPLETED"}]
  /\ EnterRetire(w, OK)
  /\ UNCHANGED <<shape, pending_submission, pending_dependency_count, completion_task,
                 call_status, queued, permanent_status, pending_submissions,
                 cur, l_completion, l_ready, l_index, discard_worklist,
                 cleanup_log, closure_calls, closure_result, discard_count,
                 scope_end_calls, fail_log, failed_tasks>>

(***************************************************************************)
(* iree_task_retire, in the steps other workers can interleave with.       *)
(***************************************************************************)
\* take and clear completion_task, fetch_sub its pending count
iree_task_retire_begin(w) ==
  /\ pc[w] = "retire"
  /\ LET t == cur[w]
         c == completion_task[t]
     IN /\ l_completion' = [l_completion EXCEPT ![w] = c]
        /\ completion_task' = [completion_task EXCEPT ![t] = 0]
        /\ l_ready' = [l_ready EXCEPT ![w] =
             CompletionTaskReady(c, IF c # 0 THEN pending_dependency_count[c]
                                    ELSE 0)]
        /\ pending_dependency_count' =
             IF c # 0 THEN [pending_dependency_count EXCEPT ![c] = @ - 1]
             ELSE pending_dependency_count
  /\ pc' = [pc EXCEPT ![w] = "retire_finish"]
  /\ UNCHANGED <<shape, pending_submission, flags, call_status, queued, permanent_status,
                 pending_submissions, cur, l_status, l_index,
                 discard_worklist, cleanup_log, closure_calls, closure_result,
                 retire_log, discard_count, scope_end_calls, fail_log,
                 failed_tasks>>

\* status OK: cleanup(OK), enqueue the completion task if it became ready
iree_task_retire_ok(w) ==
  /\ pc[w] = "retire_finish"
  /\ iree_status_is_ok(l_status[w])
  /\ cleanup_log' =
       iree_task_cleanup(cleanup_log, cur[w], RetireCleanupCode(l_status[w]))
  /\ FlushSubmission(w,
       IF l_ready[w]
         THEN iree_task_submission_enqueue(pending_submission[w],
                                           l_completion[w])
         ELSE pending_submission[w])
  /\ Idle(w)
  /\ UNCHANGED <<shape, pending_dependency_count, completion_task, flags,
                 call_status, permanent_status, pending_submissions,
                 l_completion, l_ready, l_status, l_index, discard_worklist,
                 closure_calls, closure_result, retire_log, discard_count,
                 scope_end_calls, fail_log, failed_tasks>>

\* status not OK: scope fail, cleanup(ABORTED); then the ready completion
\* task is discarded through a local worklist, a not-ready one is flagged.
\* iree_task_discard(completion_task) followed by iree_task_list_discard is
\* the drain of a worklist holding the completion task.
iree_task_retire_fail(w) ==
  /\ pc[w] = "retire_finish"
  /\ ~iree_status_is_ok(l_status[w])
  /\ permanent_status' =
       iree_task_scope_fail(permanent_status, ScopeFailArgument(l_status[w]))
  /\ fail_log' = Append(fail_log, ScopeFailArgument(l_status[w]))
  /\ cleanup_log' =
       iree_task_cleanup(cleanup_log, cur[w], RetireCleanupCode(l_status[w]))
  /\ IF l_ready[w]
       THEN /\ discard_worklist' =
                 [discard_worklist EXCEPT ![w] = <<l_completion[w]>>]
            /\ pc' = [pc EXCEPT ![w] = "discard"]
            /\ UNCHANGED <<cur, failed_tasks, queued, pending_submission>>
       ELSE IF l_completion[w] # 0
       THEN /\ pc' = [pc EXCEPT ![w] = "retire_flag"]
            /\ UNCHANGED <<cur, discard_worklist, failed_tasks, queued,
                           pending_submission>>
       ELSE /\ Idle(w)
            /\ FlushSubmission(w, pending_submission[w])
            /\ failed_tasks' = failed_tasks \cup {cur[w]}
            /\ UNCHANGED discard_worklist
  /\ UNCHANGED <<shape, pending_dependency_count, completion_task, flags,
                 call_status, pending_submissions, l_completion,
                 l_ready, l_status, l_index, closure_calls, closure_result,
                 retire_log, discard_count, scope_end_calls>>

\* completion_task->flags |= IREE_TASK_FLAG_ABORTED (a plain store)
iree_task_retire_flag(w) ==
  /\ pc[w] = "retire_flag"
  /\ flags' = [flags EXCEPT ![l_completion[w]] = @ \cup {"ABORTED"}]
  /\ failed_tasks' = failed_tasks \cup {cur[w]}
  /\ Idle(w)
  /\ FlushSubmission(w, pending_submission[w])
  /\ UNCHANGED <<shape, pending_dependency_count, completion_task,
                 call_status, permanent_status, pending_submissions,
                 l_completion, l_ready, l_status, l_index, discard_worklist,
                 cleanup_log, closure_calls, closure_result, retire_log,
                 discard_count, scope_end_calls, fail_log>>

(***************************************************************************)
(* iree_task_list_discard (collaborator) pops the front of the worklist    *)
(* and calls iree_task_discard on it until the worklist is empty.          *)
(***************************************************************************)
iree_task_discard(w) ==
  /\ pc[w] = "discard"
  /\ discard_worklist[w] # <<>>
  /\ LET t == Head(discard_worklist[w])
     IN /\ discard_worklist' = [discard_worklist EXCEPT ![w] =
             DiscardPushes(completion_task[t], DependentTasks(shape, t))
               \o Tail(@)]
        /\ discard_count' = [discard_count EXCEPT ![t] = @ + 1]
        /\ IF DiscardEndsScope(TaskType(shape, t))
             THEN /\ pending_submissions' =
                       iree_task_scope_end(pending_submissions)
                  /\ scope_end_calls' = [scope_end_calls EXCEPT ![t] = @ + 1]
             ELSE UNCHANGED <<pending_submissions, scope_end_calls>>
        /\ cleanup_log' = iree_task_cleanup(cleanup_log, t, ABORTED)
  /\ UNCHANGED <<shape, pending_submission, pending_dependency_count, completion_task, flags,
                 call_status, queued, permanent_status, pc, cur,
                 l_completion, l_ready, l_status, l_index, closure_calls,
                 closure_result, retire_log, fail_log, failed_tasks>>

\* the worklist is empty: iree_task_list_discard and the retire return
iree_task_list_discard_done(w) ==
  /\ pc[w] = "discard"
  /\ discard_worklist[w] = <<>>
  /\ failed_tasks' = failed_tasks \cup {cur[w]}
  /\ Idle(w)
  /\ FlushSubmission(w, pending_submission[w])
  /\ UNCHANGED <<shape, pending_dependency_count, completion_task, flags,
                 call_status, permanent_status, pending_submissions,
                 l_completion, l_ready, l_status, l_index, discard_worklist,
                 cleanup_log, closure_calls, closure_result, retire_log,
                 discard_count, scope_end_calls, fail_log>>

WorkerStep(w) ==
  \/ worker_pop(w)
  \/ iree_task_nop_retire(w)
  \/ iree_task_call_execute(w)
  \/ iree_task_barrier_retire_step(w)
  \/ iree_task_barrier_retire(w)
  \/ iree_task_fence_retire(w)
  \/ iree_task_wait_retire(w)
  \/ iree_task_retire_begin(w)
  \/ iree_task_retire_ok(w)
  \/ iree_task_retire_fail(w)
  \/ iree_task_retire_flag(w)
  \/ iree_task_discard(w)
  \/ iree_task_list_discard_done(w)

(***************************************************************************)
(* Sharded DISPATCH. The workgroup counts of the model are far below the   *)
(* range of uint32_t, so no product here wraps.                            *)
(***************************************************************************)
iree_min(a, b) == IF a < b THEN a ELSE b
iree_max(a, b) == IF a > b THEN a ELSE b

RESOURCE_EXHAUSTED == "RESOURCE_EXHAUSTED"

ShardIds == 1..MaxShardWorkers
Grid == (0..MaxCount) \X (0..MaxCount) \X (0..MaxCount)
ShardGrids == {c \in Grid : c[1] * c[2] * c[3] <= MaxTiles}
\* the grids of the dispatches issued in either mode, flagged or indirect
IssueGrids == {c \in Grid : c[1] * c[2] * c[3] <= MaxIssueTiles}
\* every value of the 32-bit tile cursor
TileIndices == 0..(WordModulus - 1)
\* requests of no local memory, of all a worker has, and of one byte more
LocalMemoryRequests == {0, WorkerLocalMemory, WorkerLocalMemory + 1}

NoShard == [pc |-> "none", tile_base |-> 0, tile |-> 0, status |-> OK,
            failed |-> FALSE, retired |-> "none"]

\* the flags a DISPATCH can carry when it becomes ready: INDIRECT from its
\* initializer, ABORTED from a predecessor that failed while it was pending
DispatchFlags == SUBSET {"DISPATCH_INDIRECT", "ABORTED"}

\* the completion task has the dispatch as its only or as one of two edges
CompletionEdges == {1, 2}

\* the graph specification leaves the dispatch variables at rest
IdleShards ==
  /\ d_pc = "none"
  /\ issue_mode = "shard"
  /\ d_flags = {}
  /\ workgroup_count = <<0, 0, 0>>
  /\ workgroup_count_ptr = <<0, 0, 0>>
  /\ worker_count = 0
  /\ max_tiles_per_reservation = 0
  /\ local_memory_size = 0
  /\ local_memory_length = 0
  /\ pool_slots = 0
  /\ tile_index = 0
  /\ tile_count = 0
  /\ tiles_per_reservation = 0
  /\ d_pending = 0
  /\ d_status = OK
  /\ d_retire_status = "none"
  /\ d_cleanup = <<>>
  /\ d_scope_status = OK
  /\ c_pending = 0
  /\ c_queued = 0
  /\ c_flags = {}
  /\ c_discards = 0
  /\ shard = [s \in ShardIds |-> NoShard]
  /\ tile_calls = [i \in TileIndices |-> 0]
  /\ xyz_calls = [xyz \in Grid |-> 0]

\* iree_task_dispatch_initialize / iree_task_dispatch_initialize_indirect:
\* a direct dispatch holds its counts inline, an indirect one holds a
\* pointer to them (the inline value is not read before issue); the
\* dispatch is ready (no dependency pending) and wired to a completion task
InitDispatchTask(grids, flagsets, edges) ==
  /\ d_pc = "issue"
  /\ d_flags \in flagsets
  /\ \E g \in grids :
       IF "DISPATCH_INDIRECT" \in d_flags
         THEN workgroup_count = <<0, 0, 0>> /\ workgroup_count_ptr = g
         ELSE workgroup_count = g /\ workgroup_count_ptr = <<0, 0, 0>>
  /\ tile_index = 0
  /\ tile_count = 0
  /\ tiles_per_reservation = 0
  /\ d_pending = 0
  /\ d_status = OK
  /\ d_retire_status = "none"
  /\ d_cleanup = <<>>
  /\ d_scope_status = OK
  /\ c_pending \in edges
  /\ c_queued = 0
  /\ c_flags = {}
  /\ c_discards = 0
  /\ shard = [s \in ShardIds |-> NoShard]
  /\ tile_calls = [i \in TileIndices |-> 0]
  /\ xyz_calls = [xyz \in Grid |-> 0]

\* a pool that supplies every slice or shard an issue of the model asks for
AmplePool == MaxShardWorkers + MaxSliceCount * MaxSliceCount * MaxSliceCount

\* a DISPATCH ready to be issued in shard mode, with a pool of some size
InitShardPool(grids, flagsets, edges, pools) ==
  /\ issue_mode = "shard"
  /\ InitDispatchTask(grids, flagsets, edges)
  /\ worker_count \in 1..MaxShardWorkers
  /\ max_tiles_per_reservation \in 1..MaxReservation
  /\ local_memory_size \in LocalMemoryRequests
  /\ local_memory_length = WorkerLocalMemory
  /\ pool_slots \in pools

\* a DISPATCH ready to be issued in shard mode
InitShardMode(grids, flagsets, edges) ==
  InitShardPool(grids, flagsets, edges, {AmplePool})

\* a direct, unflagged DISPATCH that is the last dependency of its
\* completion task
InitShard == InitShardMode(ShardGrids, {{}}, {1})

\* the workgroup count fetched directly or indirectly
ResolvedCount ==
  IF "DISPATCH_INDIRECT" \in d_flags THEN workgroup_count_ptr
  ELSE workgroup_count

\* the value an expression has in a uint32_t (of the model's width)
UInt32(x) == x % WordModulus

\* iree_task_dispatch_issue_sharded: tile_count
ShardTileCount(count) == UInt32(UInt32(count[1] * count[2]) * count[3])

\* mutant: one shard per worker however few tiles there are
ShardCount_Workers(tiles, workers) == workers
\* iree_task_dispatch_issue_sharded: shard_count
ShardCount(tiles, workers) == iree_min(tiles, workers)

\* iree_task_dispatch_issue_sharded: tiles each reservation takes
TilesPerReservation(tiles, workers, max_tiles) ==
  IF tiles < workers * max_tiles THEN 1 ELSE max_tiles

\* iree_task_dispatch_retire and the iree_task_retire it delegates to: the
\* status is exchanged out of the slot, the completion task is decremented;
\* with OK it is enqueued if it became ready, with a failure the scope is
\* failed and the completion task is discarded if ready, else flagged
DispatchRetire ==
  LET status == d_status
      ready == CompletionTaskReady(1, c_pending)
  IN /\ d_status' = OK
     /\ d_retire_status' = status
     /\ c_pending' = c_pending - 1
     /\ d_cleanup' = Append(d_cleanup, RetireCleanupCode(status))
     /\ d_pc' = "retired"
     /\ IF iree_status_is_ok(status)
          THEN /\ c_queued' = IF ready THEN c_queued + 1 ELSE c_queued
               /\ UNCHANGED <<d_scope_status, c_flags, c_discards>>
          ELSE /\ d_scope_status' =
                    iree_task_scope_fail(d_scope_status,
                                         ScopeFailArgument(status))
               /\ c_discards' = IF ready THEN c_discards + 1 ELSE c_discards
               /\ c_flags' = IF ready THEN c_flags
                             ELSE c_flags \cup {"ABORTED"}
               /\ UNCHANGED c_queued

\* iree_task_pool_acquire (collaborator) for the k-th slice or shard of an
\* issue: it fails with RESOURCE_EXHAUSTED once the pool is used up
PoolSupplies(k) == k <= pool_slots

\* mutant: a task the pool could not supply is posted like any other
PostedTask_Unchecked(supplied) == "queued"

\* what the issue posts: the allocate functions return NULL when the acquire
\* failed and the issue posts &task->header of whatever they returned, so a
\* failed allocation posts a NULL task that was never initialized or wired
PostedTask(supplied) == IF supplied THEN "queued" ELSE "null"

\* iree_task_dispatch_issue_sharded: the count is resolved and an indirect
\* dispatch made direct, the shards are allocated, wired as completion
\* dependencies of the dispatch (iree_task_dispatch_shard_initialize) and
\* posted; with no shard the dispatch retires at once.
iree_task_dispatch_issue_sharded ==
  /\ d_pc = "issue"
  /\ issue_mode = "shard"
  /\ LET tiles == ShardTileCount(ResolvedCount)
         shard_count == ShardCount(tiles, worker_count)
     IN /\ d_flags' = (d_flags \cup {"DISPATCH_RETIRE"}) \ {"DISPATCH_INDIRECT"}
        /\ workgroup_count' = ResolvedCount
        /\ tile_index' = 0
        /\ tile_count' = tiles
        /\ tiles_per_reservation' =
             TilesPerReservation(tiles, worker_count,
                                 max_tiles_per_reservation)
        /\ shard' = [s \in ShardIds |->
                       IF s <= shard_count
                         THEN [NoShard EXCEPT
                                 !.pc = PostedTask(PoolSupplies(s))]
                         ELSE NoShard]
        /\ d_pending' = d_pending
             + Cardinality({s \in 1..shard_count : PoolSupplies(s)})
        /\ IF shard_count = 0
             THEN DispatchRetire
             ELSE d_pc' = "running" /\ UNCHANGED dtask
  /\ UNCHANGED <<dconf, tile_calls, xyz_calls>>

\* iree_task_retire of a shard or slice: its completion task is the
\* dispatch, whose pending count is decremented. With OK the last decrement makes the
\* dispatch ready; with a failure the scope is failed and the dispatch is
\* discarded if that made it ready (iree_task_discard hands its completion
\* task to the worklist, which is drained), else flagged ABORTED.
SubtaskRetire(status) ==
  LET ready == CompletionTaskReady(1, d_pending)
  IN /\ d_pending' = d_pending - 1
     /\ IF iree_status_is_ok(status)
          THEN /\ d_pc' = IF ready THEN "ready" ELSE d_pc
               /\ UNCHANGED <<d_flags, d_scope_status, d_cleanup, c_discards>>
          ELSE /\ d_scope_status' =
                    iree_task_scope_fail(d_scope_status,
                                         ScopeFailArgument(status))
               /\ IF ready
                    THEN /\ d_pc' = "discarded"
                         /\ d_cleanup' = Append(d_cleanup, ABORTED)
                         /\ c_discards' = c_discards + 1
                         /\ UNCHANGED d_flags
                    ELSE /\ d_flags' = d_flags \cup {"ABORTED"}
                         /\ UNCHANGED <<d_pc, d_cleanup, c_discards>>

\* a shard retires
ShardRetire(s, status) ==
  /\ shard' = [shard EXCEPT ![s].pc = "done", ![s].retired = status,
                            ![s].failed = ~iree_status_is_ok(shard[s].status),
                            ![s].status = OK]
  /\ SubtaskRetire(status)

\* iree_task_dispatch_shard_execute up to its first reservation: the local
\* memory request must fit the worker's span, or the shard retires with
\* RESOURCE_EXHAUSTED without running a tile.
iree_task_dispatch_shard_execute(s) ==
  /\ shard[s].pc = "queued"
  /\ IF local_memory_size > local_memory_length
       THEN /\ ShardRetire(s, RESOURCE_EXHAUSTED)
       ELSE /\ shard' = [shard EXCEPT ![s].pc = "reserve"]
            /\ UNCHANGED <<d_pending, d_pc, d_flags, d_scope_status,
                           d_cleanup, c_discards>>
  /\ UNCHANGED <<workgroup_count, dconf, tile_index, tile_count,
                 tiles_per_reservation, d_status, d_retire_status,
                 c_pending, c_queued, c_flags, tile_calls, xyz_calls>>

\* the fetch_add of the cursor: its new value
ReserveAdvance(cursor, reservation) == cursor + reservation

\* the end of the current reservation, computed in a uint32_t
TileRange(base, reservation, tiles) ==
  iree_min(UInt32(base + reservation), tiles)

\* tile_base = fetch_add(tile_index, tiles_per_reservation) on the 32-bit
\* cursor; the outer loop runs while tile_base < tile_count, and the inner
\* one is entered only when tile_base < tile_range
shard_reserve(s) ==
  /\ shard[s].pc = "reserve"
  /\ tile_index' = UInt32(ReserveAdvance(tile_index, tiles_per_reservation))
  /\ shard' = [shard EXCEPT
                 ![s].tile_base = tile_index,
                 ![s].tile = tile_index,
                 ![s].pc = IF ~(tile_index < tile_count) THEN "finish"
                           ELSE IF tile_index < TileRange(tile_index,
                                       tiles_per_reservation, tile_count)
                             THEN "tile"
                           ELSE "reserve"]
  /\ UNCHANGED <<d_pc, d_flags, workgroup_count, dconf, tile_count,
                 tiles_per_reservation, d_pending, dtask, tile_calls,
                 xyz_calls>>

\* mutant: z is taken from the index without the division by count_x
TileXYZ_FlatZ(i, count) ==
  <<i % count[1], (i \div count[1]) % count[2], i \div count[2]>>

\* a linear tile index as workgroup_xyz
TileXYZ(i, count) ==
  <<i % count[1], (i \div count[1]) % count[2],
    (i \div count[1]) \div count[2]>>

\* one iteration of the tile loop: the closure runs on the tile; a failure
\* leaves both loops, success moves on and re-reserves at the range end
shard_tile(s) ==
  /\ shard[s].pc = "tile"
  /\ tile_calls[shard[s].tile] < MaxTileRuns
  /\ LET i == shard[s].tile
         range == TileRange(shard[s].tile_base, tiles_per_reservation,
                            tile_count)
         xyz == TileXYZ(i, workgroup_count)
     IN /\ tile_calls' = [tile_calls EXCEPT ![i] = @ + 1]
        /\ xyz_calls' = IF xyz \in Grid
                          THEN [xyz_calls EXCEPT ![xyz] = @ + 1]
                          ELSE xyz_calls
        /\ \E r \in StatusValues :
             shard' = [shard EXCEPT
                         ![s].status = r,
                         ![s].tile = i + 1,
                         ![s].pc = IF ~iree_status_is_ok(r) THEN "finish"
                                   ELSE IF i + 1 < range THEN "tile"
                                   ELSE "reserve"]
  /\ UNCHANGED <<d_pc, d_flags, workgroup_count, dconf, tile_index,
                 tile_count, tiles_per_reservation, d_pending, dtask>>

\* after the loop: a failure is CAS-stored into the dispatch status, and
\* the shard retires with OK
shard_finish(s) ==
  /\ shard[s].pc = "finish"
  /\ d_status' = iree_task_try_set_status(d_status, shard[s].status)
  /\ ShardRetire(s, OK)
  /\ UNCHANGED <<workgroup_count, dconf, tile_index, tile_count,
                 tiles_per_reservation, d_retire_status, c_pending,
                 c_queued, c_flags, tile_calls, xyz_calls>>

\* iree_task_dispatch_retire of a dispatch made ready by its last shard
iree_task_dispatch_retire ==
  /\ d_pc = "ready"
  /\ DispatchRetire
  /\ UNCHANGED <<d_flags, workgroup_count, dconf, tile_index, tile_count,
                 tiles_per_reservation, d_pending, shard, tile_calls,
                 xyz_calls>>

\* iree_task_post_batch_select_worker (collaborator): some worker index of
\* the affinity set
iree_task_post_batch_select_worker(affinity) ==
  {i \in 0..(worker_count - 1) : i \in affinity}

SetupTasks == 1..MaxDependents

SetupSides == {"initialize", "empty"}

\* a barrier_t before any initializer ran on it
RawBarrier ==
  [pc |-> "raw", type |-> "none", dependent_task_count |-> 0,
   dependent_tasks |-> <<>>, i |-> 0]

\* outside the barrier specification no barrier is being set up
NoSetup ==
  [list |-> <<>>, prior |-> [t \in SetupTasks |-> 0],
   barrier |-> [side \in SetupSides |-> [RawBarrier EXCEPT !.pc = "none"]],
   pending_dependency_count |->
     [side \in SetupSides |-> [t \in SetupTasks |-> 0]]]

\* the worker and the starting offset of the posting are inputs of the
\* issue: the executor picks the worker, and the offset is the worker that
\* iree_task_post_batch_select_worker picks for the dispatch's affinity set
InitPostingTo(issuers, offsets, affinities) ==
  /\ affinity_set \in
       {a \in affinities : a # {} /\ a \subseteq 0..(worker_count - 1)}
  /\ issue_worker \in {w \in issuers : w <= worker_count}
  /\ worker_offset \in
       offsets \cap iree_task_post_batch_select_worker(affinity_set)
  /\ begin_log = [w \in ShardIds |-> <<>>]
  /\ tile_memory = {}
  /\ task_pool = (0 :> <<>>)
  /\ barrier_setup = NoSetup

\* the default affinity: any worker
InitPosting(issuers, offsets) ==
  InitPostingTo(issuers, offsets, {0..(worker_count - 1)})

\* mutant: the tile context maps the whole span of the worker
TileLocalMemory_Whole(span_length, requested) == span_length

\* tile_context.local_memory =
\*   iree_make_byte_span(local_memory.data, local_memory_size): its length
TileLocalMemory(span_length, requested) == requested

\* the closure is handed the tile context with the span mapped for it
TileMapped ==
  tile_memory' = tile_memory \cup
                   {TileLocalMemory(local_memory_length, local_memory_size)}

\* iree_task_pool_acquire (collaborator): the slot handed out is recorded;
\* the allocate functions then store the pool in the task's header
iree_task_pool_acquire == <<"acquire">>

\* mutant: the task is released before and after its cleanup_fn
CleanupEvents_ReleaseTwice(cleanup_fn, pool) ==
  (IF pool THEN <<"release">> ELSE <<>>)
    \o (IF cleanup_fn THEN <<"cleanup_fn">> ELSE <<>>)
    \o (IF pool THEN <<"release">> ELSE <<>>)

\* iree_task_cleanup: the cleanup_fn, if set, is called, then the task is
\* released to the pool its header names, if any
CleanupEvents(cleanup_fn, pool) ==
  (IF cleanup_fn THEN <<"cleanup_fn">> ELSE <<>>)
    \o (IF pool THEN <<"release">> ELSE <<>>)

\* the shards or slices allocated so far, and those that have retired
PoolTasks ==
  {s \in ShardIds : shard[s].pc \notin {"none", "null"}}
    \cup {i \in DOMAIN slices : slices[i].pc # "null"}

PoolRetired ==
  {s \in ShardIds : shard[s].pc = "done"}
    \cup {i \in DOMAIN slices : slices[i].pc = "done"}
    \cup (IF d_pc \in {"retired", "discarded"} THEN {0} ELSE {})

\* what a step does to the allocations: a shard or slice it allocates is
\* acquired from the pool, and a task it retires or discards runs
\* iree_task_cleanup (a cleanup_fn is set on the dispatch only; the pool is
\* the one the header recorded at allocation)
PoolStep ==
  task_pool' =
    [id \in DOMAIN task_pool \cup PoolTasks' |->
       LET events == IF id \in DOMAIN task_pool THEN task_pool[id]
                     ELSE iree_task_pool_acquire
       IN IF id \in PoolRetired' \ PoolRetired
            THEN events \o CleanupEvents(id = 0, Occurrences(events, "acquire") > 0)
            ELSE events]

\* iree_task_post_batch_enqueue(post_batch, worker_index % worker_count, ..)
\* with worker_index = worker_offset + i for the i-th shard (workers from 1)
ShardWorker(s) == ((worker_offset + (s - 1)) % worker_count) + 1

\* worker w begins to execute task t
WorkerBegins(w, t) ==
  /\ begin_log' = [begin_log EXCEPT ![w] = Append(@, t)]
  /\ UNCHANGED <<issue_worker, worker_offset, affinity_set, tile_memory>>

\* the dispatch is issued on its worker, a shard runs on the worker it was
\* posted to, and a dispatch made ready is executed again, by any worker,
\* to retire
NextShard ==
  \/ /\ iree_task_dispatch_issue_sharded
     /\ WorkerBegins(issue_worker, 0)
     /\ UNCHANGED <<gvars, lvars>>
     /\ PoolStep /\ UNCHANGED barrier_setup
  \/ \E w \in 1..worker_count :
       /\ iree_task_dispatch_retire
       /\ WorkerBegins(w, 0)
       /\ UNCHANGED <<gvars, lvars>>
       /\ PoolStep /\ UNCHANGED barrier_setup
  \/ \E s \in ShardIds :
       /\ iree_task_dispatch_shard_execute(s)
       /\ WorkerBegins(ShardWorker(s), s)
       /\ UNCHANGED <<gvars, lvars>>
       /\ PoolStep /\ UNCHANGED barrier_setup
  \/ \E s \in ShardIds :
       shard_reserve(s) /\ UNCHANGED <<gvars, lvars, wvars, tile_memory>> /\ PoolStep /\ UNCHANGED barrier_setup
  \/ \E s \in ShardIds :
       shard_tile(s) /\ TileMapped /\ UNCHANGED <<gvars, lvars, wvars>> /\ PoolStep /\ UNCHANGED barrier_setup
  \/ \E s \in ShardIds :
       shard_finish(s) /\ UNCHANGED <<gvars, lvars, wvars, tile_memory>> /\ PoolStep /\ UNCHANGED barrier_setup

(***************************************************************************)
(* Slice-mode issue of a DISPATCH.                                         *)
(***************************************************************************)
SliceGrid == (0..MaxSliceCount) \X (0..MaxSliceCount) \X (0..MaxSliceCount)
SliceTuning ==
  (1..MaxTilesPerSlice) \X (1..MaxTilesPerSlice) \X (1..MaxTilesPerSlice)

\* the other specifications leave the slice variables at rest
IdleSlices ==
  /\ tiles_per_slice = <<1, 1, 1>>
  /\ slice_xyz = <<0, 0, 0>>
  /\ slices = <<>>
  /\ worker_index = 0
  /\ worker_slice_count = 0

\* a DISPATCH ready to be issued in slice mode, with a pool of some size
InitSlicePool(grids, flagsets, edges, requests, pools) ==
  /\ issue_mode = "slice"
  /\ InitDispatchTask(grids, flagsets, edges)
  /\ worker_count \in 1..MaxShardWorkers
  /\ tiles_per_slice \in SliceTuning
  /\ max_tiles_per_reservation = 0
  /\ local_memory_size \in requests
  /\ local_memory_length = WorkerLocalMemory
  /\ pool_slots \in pools
  /\ slice_xyz = <<0, 0, 0>>
  /\ slices = <<>>
  /\ worker_index = 0
  /\ worker_slice_count = 0

\* a DISPATCH ready to be issued in slice mode
InitSliceMode(grids, flagsets, edges, requests) ==
  InitSlicePool(grids, flagsets, edges, requests, {AmplePool})

\* a direct, unflagged DISPATCH that is the last dependency of its
\* completion task
InitSlice == InitSliceMode(SliceGrid, {{}}, {1}, {0})

\* mutant: the dispatch is taken for empty only when every count is zero
TotalWorkgroupCount_Sum(count) == count[1] + count[2] + count[3]
\* issue_sliced: total_workgroup_count
TotalWorkgroupCount(count) ==
  UInt32(UInt32(count[1] * count[2]) * count[3])

\* issue_sliced: slice_count_{x,y,z}, per axis
SliceCount(count, tiles) == iree_max(1, count \div tiles)

SliceCounts(count, tps) ==
  <<SliceCount(count[1], tps[1]), SliceCount(count[2], tps[2]),
    SliceCount(count[3], tps[3])>>

\* issue_sliced: slices_per_worker
SlicesPerWorker(slice_count, workers) == iree_max(1, slice_count \div workers)

\* issue_sliced: workgroup_base of a slice, per axis
WorkgroupBase(slice, tiles) == slice * tiles

\* mutant: the range is the exclusive end of the box
WorkgroupRange_Exclusive(count, base, tiles) == iree_min(count, base + tiles)

\* issue_sliced: workgroup_range of a slice (inclusive), per axis
WorkgroupRange(count, base, tiles) == iree_min(count, base + tiles) - 1

\* iree_task_dispatch_issue_sliced up to its loop: a dispatch of no
\* workgroups retires at once; else a starting worker is selected
\* (iree_task_post_batch_select_worker, any worker of the batch)
iree_task_dispatch_issue_sliced ==
  /\ d_pc = "issue"
  /\ issue_mode = "slice"
  /\ d_flags' = d_flags \cup {"DISPATCH_RETIRE"}
  /\ IF TotalWorkgroupCount(ResolvedCount) = 0
       THEN /\ DispatchRetire
            /\ UNCHANGED worker_index
       ELSE /\ d_pc' = "slicing"
            /\ worker_index' \in
                 iree_task_post_batch_select_worker(affinity_set)
            /\ UNCHANGED dtask
  /\ slice_xyz' = <<0, 0, 0>>
  /\ worker_slice_count' = 0
  /\ UNCHANGED <<workgroup_count, dconf, tile_index, tile_count,
                 tiles_per_reservation, d_pending, shard, tile_calls,
                 xyz_calls, tiles_per_slice, slices>>

\* the loop variables after one more iteration: x innermost, z outermost;
\* z reaching its count ends the loops
NextSliceXYZ(xyz, counts) ==
  IF xyz[1] + 1 < counts[1] THEN <<xyz[1] + 1, xyz[2], xyz[3]>>
  ELSE IF xyz[2] + 1 < counts[2] THEN <<0, xyz[2] + 1, xyz[3]>>
  ELSE <<0, 0, xyz[3] + 1>>

\* one iteration of the loops of issue_sliced: the slice is allocated and
\* initialized (iree_task_dispatch_slice_initialize wires it as a completion
\* dependency of the dispatch) and posted to worker_index % worker_count
issue_sliced_step ==
  /\ d_pc = "slicing"
  /\ LET counts == SliceCounts(ResolvedCount, tiles_per_slice)
         slice_count == counts[1] * counts[2] * counts[3]
         base == [a \in 1..3 |->
                    WorkgroupBase(slice_xyz[a], tiles_per_slice[a])]
         range == [a \in 1..3 |->
                     WorkgroupRange(ResolvedCount[a], base[a],
                                    tiles_per_slice[a])]
         next == NextSliceXYZ(slice_xyz, counts)
         full == worker_slice_count + 1 >=
                   SlicesPerWorker(slice_count, worker_count)
         supplied == PoolSupplies(Len(slices) + 1)
     IN /\ slices' = Append(slices, [base |-> base, range |-> range,
                                     worker |-> worker_index % worker_count,
                                     pc |-> PostedTask(supplied), xyz |-> base,
                                     status |-> OK, failed |-> FALSE,
                                     retired |-> "none"])
        /\ d_pending' = IF supplied THEN d_pending + 1 ELSE d_pending
        /\ worker_index' = IF full THEN worker_index + 1 ELSE worker_index
        /\ worker_slice_count' = IF full THEN 0 ELSE worker_slice_count + 1
        /\ slice_xyz' = next
        /\ d_pc' = IF next[3] < counts[3] THEN "slicing" ELSE "running"
  /\ UNCHANGED <<d_flags, workgroup_count, dconf, tile_index, tile_count,
                 tiles_per_reservation, dtask, shard, tile_calls, xyz_calls,
                 tiles_per_slice>>

\* a slice retires
SliceRetire(i, status) ==
  /\ slices' = [slices EXCEPT ![i].pc = "done", ![i].retired = status,
                              ![i].failed = ~iree_status_is_ok(slices[i].status),
                              ![i].status = OK]
  /\ SubtaskRetire(status)

\* the loops of slice_execute run no tile: some base exceeds its range
EmptyBox(sl) == \E a \in 1..3 : sl.base[a] > sl.range[a]

\* iree_task_dispatch_slice_execute up to its loops, once the post batch of
\* the issue was submitted: the local memory request must fit the worker's
\* span, or the slice retires with RESOURCE_EXHAUSTED without running a tile
iree_task_dispatch_slice_execute(i) ==
  /\ d_pc \notin {"issue", "slicing"}
  /\ slices[i].pc = "queued"
  /\ IF local_memory_size > local_memory_length
       THEN /\ SliceRetire(i, RESOURCE_EXHAUSTED)
       ELSE /\ slices' = [slices EXCEPT
                            ![i].pc = IF EmptyBox(slices[i]) THEN "finish"
                                      ELSE "tile"]
            /\ UNCHANGED <<d_pending, d_pc, d_flags, d_scope_status,
                           d_cleanup, c_discards>>
  /\ UNCHANGED <<workgroup_count, dconf, tile_index, tile_count,
                 tiles_per_reservation, d_status, d_retire_status,
                 c_pending, c_queued, c_flags, shard, tile_calls, xyz_calls,
                 tiles_per_slice, slice_xyz, worker_index,
                 worker_slice_count>>

\* mutant: the loops nest the other way round, x outermost and z fastest
NextTileXYZ_XMajor(xyz, sl) ==
  IF xyz[3] + 1 <= sl.range[3] THEN <<xyz[1], xyz[2], xyz[3] + 1>>
  ELSE IF xyz[2] + 1 <= sl.range[2] THEN <<xyz[1], xyz[2] + 1, sl.base[3]>>
  ELSE <<xyz[1] + 1, sl.base[2], sl.base[3]>>

\* the loop variables of slice_execute after one more iteration: x
\* innermost, z outermost, each from its base to its inclusive range
NextTileXYZ(xyz, sl) ==
  IF xyz[1] + 1 <= sl.range[1] THEN <<xyz[1] + 1, xyz[2], xyz[3]>>
  ELSE IF xyz[2] + 1 <= sl.range[2] THEN <<sl.base[1], xyz[2] + 1, xyz[3]>>
  ELSE <<sl.base[1], sl.base[2], xyz[3] + 1>>

\* one iteration of the loops: the closure runs on the tile; a failure
\* leaves the loops
slice_tile(i) ==
  /\ slices[i].pc = "tile"
  /\ LET xyz == slices[i].xyz
         next == NextTileXYZ(xyz, slices[i])
     IN /\ xyz_calls' = [xyz_calls EXCEPT ![xyz] = @ + 1]
        /\ \E r \in StatusValues :
             slices' = [slices EXCEPT
                          ![i].status = r,
                          ![i].xyz = next,
                          ![i].pc = IF ~iree_status_is_ok(r) THEN "finish"
                                    ELSE IF next[3] <= slices[i].range[3]
                                      THEN "tile"
                                    ELSE "finish"]
  /\ UNCHANGED <<d_pc, d_flags, workgroup_count, dconf, tile_index,
                 tile_count, tiles_per_reservation, d_pending, dtask, shard,
                 tile_calls, tiles_per_slice, slice_xyz, worker_index,
                 worker_slice_count>>

\* after the loops: a failure is CAS-stored into the dispatch status, and
\* the slice retires with OK
slice_finish(i) ==
  /\ slices[i].pc = "finish"
  /\ d_status' = iree_task_try_set_status(d_status, slices[i].status)
  /\ SliceRetire(i, OK)
  /\ UNCHANGED <<workgroup_count, dconf, tile_index, tile_count,
                 tiles_per_reservation, d_retire_status, c_pending,
                 c_queued, c_flags, shard, tile_calls, xyz_calls,
                 tiles_per_slice, slice_xyz, worker_index,
                 worker_slice_count>>
NextSlice ==
  \/ iree_task_dispatch_issue_sliced /\ UNCHANGED <<gvars, wvars, tile_memory>> /\ PoolStep /\ UNCHANGED barrier_setup
  \/ issue_sliced_step /\ UNCHANGED <<gvars, wvars, tile_memory>> /\ PoolStep /\ UNCHANGED barrier_setup

\* no task is queued and every worker is idle
Quiescent ==
  /\ \A w \in Workers : pc[w] = "idle"
  /\ \A t \in Tasks : queued[t] = 0

\* the graph specification posts no dispatch
NoPosting ==
  /\ issue_worker = 1
  /\ worker_offset = 0
  /\ affinity_set = {}
  /\ begin_log = [w \in ShardIds |-> <<>>]
  /\ tile_memory = {}
  /\ task_pool = (0 :> <<>>)

\* ... and no barrier is being set up
IdlePosting == NoPosting /\ barrier_setup = NoSetup

Init == InitGraph /\ IdleShards /\ IdleSlices /\ IdlePosting

Next ==
  \/ \E w \in Workers : worker_pop(w) /\ UNCHANGED <<svars, lvars, wvars, tile_memory, task_pool, barrier_setup>>
  \/ \E w \in Workers : iree_task_nop_retire(w) /\ UNCHANGED <<svars, lvars, wvars, tile_memory, task_pool, barrier_setup>>
  \/ \E w \in Workers : iree_task_call_execute(w) /\ UNCHANGED <<svars, lvars, wvars, tile_memory, task_pool, barrier_setup>>
  \/ \E w \in Workers : iree_task_barrier_retire_step(w) /\ UNCHANGED <<svars, lvars, wvars, tile_memory, task_pool, barrier_setup>>
  \/ \E w \in Workers : iree_task_barrier_retire(w) /\ UNCHANGED <<svars, lvars, wvars, tile_memory, task_pool, barrier_setup>>
  \/ \E w \in Workers : iree_task_fence_retire(w) /\ UNCHANGED <<svars, lvars, wvars, tile_memory, task_pool, barrier_setup>>
  \/ \E w \in Workers : iree_task_wait_retire(w) /\ UNCHANGED <<svars, lvars, wvars, tile_memory, task_pool, barrier_setup>>
  \/ \E w \in Workers : iree_task_retire_begin(w) /\ UNCHANGED <<svars, lvars, wvars, tile_memory, task_pool, barrier_setup>>
  \/ \E w \in Workers : iree_task_retire_ok(w) /\ UNCHANGED <<svars, lvars, wvars, tile_memory, task_pool, barrier_setup>>
  \/ \E w \in Workers : iree_task_retire_fail(w) /\ UNCHANGED <<svars, lvars, wvars, tile_memory, task_pool, barrier_setup>>
  \/ \E w \in Workers : iree_task_retire_flag(w) /\ UNCHANGED <<svars, lvars, wvars, tile_memory, task_pool, barrier_setup>>
  \/ \E w \in Workers : iree_task_discard(w) /\ UNCHANGED <<svars, lvars, wvars, tile_memory, task_pool, barrier_setup>>
  \/ \E w \in Workers : iree_task_list_discard_done(w) /\ UNCHANGED <<svars, lvars, wvars, tile_memory, task_pool, barrier_setup>>

Spec == Init /\ [][Next]_vars

\* every worker that can take a step eventually takes one
FairSpec ==
  Spec /\ \A w \in Workers : WF_vars(WorkerStep(w) /\ UNCHANGED <<svars, lvars, wvars, tile_memory, task_pool, barrier_setup>>)

\* the dispatch specifications leave the graph variables at rest
IdleGraph == shape = "mixed" /\ InitGraph

InitShardSpec ==
  IdleGraph /\ InitShard /\ IdleSlices /\ InitPosting({1}, {0})

SpecShard == InitShardSpec /\ [][NextShard]_vars

InitSliceSpec == IdleGraph /\ InitSlice /\ InitPosting({1}, {0})

SpecSlice == InitSliceSpec /\ [][NextSlice]_vars

\* a DISPATCH of either mode, direct or indirect, flagged ABORTED or not
InitDispatchSpec ==
  /\ IdleGraph
  /\ \/ InitShardMode(IssueGrids, DispatchFlags, CompletionEdges) /\ IdleSlices
     \/ InitSliceMode(IssueGrids, DispatchFlags, CompletionEdges, {0})
  /\ InitPosting({1}, {0})

\* the slices of a dispatch issued in slice mode execute
NextSliceExecute ==
  \/ \E i \in DOMAIN slices :
       /\ iree_task_dispatch_slice_execute(i)
       /\ UNCHANGED <<gvars, wvars, tile_memory>>
       /\ PoolStep /\ UNCHANGED barrier_setup
  \/ \E i \in DOMAIN slices :
       slice_tile(i) /\ TileMapped /\ UNCHANGED <<gvars, wvars>> /\ PoolStep /\ UNCHANGED barrier_setup
  \/ \E i \in DOMAIN slices :
       slice_finish(i) /\ UNCHANGED <<gvars, wvars, tile_memory>> /\ PoolStep /\ UNCHANGED barrier_setup

NextDispatch == NextShard \/ NextSlice

SpecDispatch == InitDispatchSpec /\ [][NextDispatch]_vars

\* a direct DISPATCH in shard mode, issued on any worker and posted from any
\* starting offset
InitOrderSpec ==
  /\ IdleGraph
  /\ InitShardMode(IssueGrids, {{}}, {1})
  /\ IdleSlices
  /\ InitPosting(ShardIds, 0..(MaxShardWorkers - 1))

SpecOrder == InitOrderSpec /\ [][NextShard]_vars

\* a direct DISPATCH of either mode whose slices or shards execute, with a
\* local memory request that fits the worker's span or does not
InitExecuteSpec ==
  /\ IdleGraph
  /\ \/ InitShardMode(IssueGrids, {{}}, CompletionEdges) /\ IdleSlices
     \/ InitSliceMode(IssueGrids, {{}}, CompletionEdges, LocalMemoryRequests)
  /\ InitPosting({1}, {0})

NextExecute == NextShard \/ NextSlice \/ NextSliceExecute

SpecExecute == InitExecuteSpec /\ [][NextExecute]_vars

(***************************************************************************)
(* The nested specification: one CALL whose closure submits up to          *)
(* MaxNested nested CALLs that complete into it, followed by a fence.      *)
(***************************************************************************)
InitNestedSpec ==
  /\ InitGraphOf({"nested"})
  /\ IdleShards
  /\ IdleSlices
  /\ IdlePosting

NextNested ==
  \/ \E w \in Workers : worker_pop(w) /\ UNCHANGED <<svars, lvars, wvars, tile_memory, task_pool, barrier_setup>>
  \/ \E w \in Workers : iree_task_call_execute(w) /\ UNCHANGED <<svars, lvars, wvars, tile_memory, task_pool, barrier_setup>>
  \/ \E w \in Workers : iree_task_fence_retire(w) /\ UNCHANGED <<svars, lvars, wvars, tile_memory, task_pool, barrier_setup>>
  \/ \E w \in Workers : iree_task_retire_begin(w) /\ UNCHANGED <<svars, lvars, wvars, tile_memory, task_pool, barrier_setup>>
  \/ \E w \in Workers : iree_task_retire_ok(w) /\ UNCHANGED <<svars, lvars, wvars, tile_memory, task_pool, barrier_setup>>
  \/ \E w \in Workers : iree_task_retire_fail(w) /\ UNCHANGED <<svars, lvars, wvars, tile_memory, task_pool, barrier_setup>>
  \/ \E w \in Workers : iree_task_retire_flag(w) /\ UNCHANGED <<svars, lvars, wvars, tile_memory, task_pool, barrier_setup>>
  \/ \E w \in Workers : iree_task_discard(w) /\ UNCHANGED <<svars, lvars, wvars, tile_memory, task_pool, barrier_setup>>
  \/ \E w \in Workers : iree_task_list_discard_done(w) /\ UNCHANGED <<svars, lvars, wvars, tile_memory, task_pool, barrier_setup>>

SpecNested == InitNestedSpec /\ [][NextNested]_vars
\* a direct DISPATCH of either mode with any non-empty affinity set
InitAffinitySpec ==
  /\ IdleGraph
  /\ \/ InitShardMode(IssueGrids, {{}}, {1}) /\ IdleSlices
     \/ InitSliceMode(IssueGrids, {{}}, {1}, {0})
  /\ InitPostingTo({1}, 0..(MaxShardWorkers - 1),
                   SUBSET (0..(MaxShardWorkers - 1)))

SpecAffinity == InitAffinitySpec /\ [][NextDispatch]_vars
(***************************************************************************)
(* The pool specification: a direct DISPATCH of either mode is issued from *)
(* a pool that may run out. Using the NULL task that the issue then posts  *)
(* is undefined: a worker may fault on it at any time, or never touch it.  *)
(***************************************************************************)
InitPoolSpec ==
  /\ IdleGraph
  /\ \/ InitShardPool(IssueGrids, {{}}, {1}, 0..MaxPoolSlots) /\ IdleSlices
     \/ InitSlicePool(IssueGrids, {{}}, {1}, {0}, 0..MaxPoolSlots)
  /\ InitPosting({1}, {0})

NullPosted ==
  {s \in ShardIds : shard[s].pc = "null"}
    \cup {i \in DOMAIN slices : slices[i].pc = "null"}

\* the process faults on a NULL task
null_task_fault ==
  /\ NullPosted # {}
  /\ d_pc' = "crashed"
  /\ UNCHANGED <<gvars, d_flags, workgroup_count, dconf, tile_index,
                 tile_count, tiles_per_reservation, d_pending, dtask, shard,
                 tile_calls, xyz_calls, lvars, wvars, tile_memory, task_pool, barrier_setup>>

NextPool ==
  \/ d_pc # "crashed" /\ NextExecute
  \/ d_pc # "crashed" /\ null_task_fault

SpecPool == InitPoolSpec /\ [][NextPool]_vars
(***************************************************************************)
(* The count specification: a direct DISPATCH of either mode whose counts  *)
(* are small or so large that their product does not fit the unsigned     *)
(* word; only the issue is taken.                                          *)
(***************************************************************************)
WideCounts == {0, 1, 2, 3, 16, WordModulus \div 2}

InitCountSpec ==
  /\ IdleGraph
  /\ \/ InitShardMode(WideCounts \X WideCounts \X WideCounts, {{}}, {1})
        /\ IdleSlices
     \/ InitSliceMode(WideCounts \X WideCounts \X WideCounts, {{}}, {1}, {0})
  /\ InitPosting({1}, {0})

NextCount ==
  \/ /\ iree_task_dispatch_issue_sharded
     /\ WorkerBegins(issue_worker, 0)
     /\ UNCHANGED <<gvars, lvars>>
     /\ PoolStep /\ UNCHANGED barrier_setup
  \/ iree_task_dispatch_issue_sliced /\ UNCHANGED <<gvars, wvars, tile_memory>> /\ PoolStep /\ UNCHANGED barrier_setup

SpecCount == InitCountSpec /\ [][NextCount]_vars
(***************************************************************************)
(* The wrap specification: a shard-mode DISPATCH of one tile less than the *)
(* unsigned word holds, on one worker, so that the last reservations of   *)
(* its one shard reach the end of the 32-bit tile cursor.                  *)
(***************************************************************************)
WrapGrids == {<<WordModulus - 1, 1, 1>>}

InitWrapSpec ==
  /\ IdleGraph
  /\ InitShardMode(WrapGrids, {{}}, {1})
  /\ worker_count = 1
  /\ IdleSlices
  /\ InitPosting({1}, {0})

SpecWrap == InitWrapSpec /\ [][NextShard]_vars
(***************************************************************************)
(* The slice-run specification: a direct DISPATCH of up to MaxTiles tiles  *)
(* is issued in slice mode and its slices execute, so that boxes of more   *)
(* than one tile on two axes are run.                                      *)
(***************************************************************************)
InitSliceRunSpec ==
  /\ IdleGraph
  /\ InitSliceMode(ShardGrids, {{}}, {1}, {0})
  /\ InitPosting({1}, {0})

NextSliceRun == NextSlice \/ NextSliceExecute

SpecSliceRun == InitSliceRunSpec /\ [][NextSliceRun]_vars
(***************************************************************************)
(* The barrier specification: one BARRIER is set up twice from the same    *)
(* list of dependent tasks and the same pending counts, once by            *)
(* iree_task_barrier_initialize (side "initialize") and once by            *)
(* iree_task_barrier_initialize_empty followed by                          *)
(* iree_task_barrier_set_dependent_tasks (side "empty"); each iteration of *)
(* the wiring loops is a step.                                             *)
(***************************************************************************)
SetupLists ==
  UNION {[1..n -> SetupTasks] : n \in 0..MaxDependents}

InitBarrierSetup ==
  \E list \in SetupLists, prior \in [SetupTasks -> 0..1] :
    barrier_setup =
      [list |-> list, prior |-> prior,
       barrier |-> [side \in SetupSides |-> RawBarrier],
       pending_dependency_count |-> [side \in SetupSides |-> prior]]

\* mutant: the dependent's count is stored, not added to
BarrierWire_Store(pending, task) == [pending EXCEPT ![task] = 1]

\* the fetch_add of one dependent's pending_dependency_count
BarrierWire(pending, task) == [pending EXCEPT ![task] = @ + 1]

\* iree_task_initialize of the barrier, then the count and the list
BarrierWith(count, tasks) ==
  [pc |-> "wire", type |-> "BARRIER", dependent_task_count |-> count,
   dependent_tasks |-> tasks, i |-> 0]

\* iree_task_barrier_initialize up to its loop
iree_task_barrier_initialize ==
  /\ barrier_setup.barrier["initialize"].pc = "raw"
  /\ barrier_setup' =
       [barrier_setup EXCEPT
          !.barrier["initialize"] =
            BarrierWith(Len(barrier_setup.list), barrier_setup.list)]

\* iree_task_barrier_initialize_empty
iree_task_barrier_initialize_empty ==
  /\ barrier_setup.barrier["empty"].pc = "raw"
  /\ barrier_setup' =
       [barrier_setup EXCEPT
          !.barrier["empty"] =
            [BarrierWith(0, <<>>) EXCEPT !.pc = "empty"]]

\* iree_task_barrier_set_dependent_tasks up to its loop; the header is not
\* initialized again
iree_task_barrier_set_dependent_tasks ==
  /\ barrier_setup.barrier["empty"].pc = "empty"
  /\ barrier_setup' =
       [barrier_setup EXCEPT
          !.barrier["empty"] =
            [@ EXCEPT !.pc = "wire",
                      !.dependent_task_count = Len(barrier_setup.list),
                      !.dependent_tasks = barrier_setup.list,
                      !.i = 0]]

\* one iteration of the loop of either function, or its end
barrier_wire_step(side) ==
  /\ LET b == barrier_setup.barrier[side]
     IN /\ b.pc = "wire"
        /\ IF b.i < b.dependent_task_count
             THEN barrier_setup' =
                    [barrier_setup EXCEPT
                       !.barrier[side].i = @ + 1,
                       !.pending_dependency_count[side] =
                         BarrierWire(@, b.dependent_tasks[b.i + 1])]
             ELSE barrier_setup' =
                    [barrier_setup EXCEPT !.barrier[side].pc = "done"]

InitBarrierSpec ==
  /\ IdleGraph
  /\ IdleShards
  /\ IdleSlices
  /\ NoPosting
  /\ InitBarrierSetup

NextBarrier ==
  \/ iree_task_barrier_initialize
       /\ UNCHANGED <<gvars, svars, lvars, wvars, tile_memory, task_pool>>
  \/ iree_task_barrier_initialize_empty
       /\ UNCHANGED <<gvars, svars, lvars, wvars, tile_memory, task_pool>>
  \/ iree_task_barrier_set_dependent_tasks
       /\ UNCHANGED <<gvars, svars, lvars, wvars, tile_memory, task_pool>>
  \/ \E side \in SetupSides :
       barrier_wire_step(side)
         /\ UNCHANGED <<gvars, svars, lvars, wvars, tile_memory, task_pool>>

SpecBarrier == InitBarrierSpec /\ [][NextBarrier]_vars
(***************************************************************************)
(* The retire specification: a run is either one of the graphs (the nested *)
(* one included) or one dispatch that is issued and whose slices or shards *)
(* execute, so that every path into iree_task_retire is taken.             *)
(***************************************************************************)
InitRetireSpec ==
  \/ InitGraphOf(Shapes \cup {"nested"}) /\ IdleShards /\ IdleSlices /\ IdlePosting
  \/ InitExecuteSpec

NextRetire ==
  \/ d_pc = "none" /\ Next
  \/ d_pc # "none" /\ NextExecute

SpecRetire == InitRetireSpec /\ [][NextRetire]_vars
(***************************************************************************)
(* Derived notions used by the properties.                                 *)
(***************************************************************************)
Range(s) == {s[i] : i \in DOMAIN s}

\* the tasks a retire or discard of t hands on to: its completion task and,
\* for a BARRIER, its dependents
Successors(t) ==
  (IF WiredCompletion(shape, t) # 0 THEN {WiredCompletion(shape, t)} ELSE {})
  \cup Range(DependentTasks(shape, t))

RECURSIVE ReachableFrom(_, _)
ReachableFrom(frontier, seen) ==
  LET next == (UNION {Successors(t) : t \in frontier}) \ seen
  IN IF next = {} THEN seen ELSE ReachableFrom(next, seen \cup next)

\* tasks transitively reachable from t over completion and BARRIER edges
Reachable(t) == ReachableFrom({t}, {})

CleanupCount(t) == Len(cleanup_log[t])
RetireCount(t) == Len(retire_log[t])

\* a worker is executing or retiring t
Executing(t) == \E w \in Workers : cur[w] = t

PendingSum == SeqSum([t \in Tasks |-> pending_dependency_count[t]])

(***************************************************************************)
(* C1. Every task of the submitted graph is retired or discarded exactly   *)
(* once and its cleanup_fn is invoked exactly once: never twice, and not   *)
(* zero times once the graph is quiescent.                                 *)
(***************************************************************************)
CleanupExactlyOnce ==
  \A t \in Tasks :
    /\ RetireCount(t) + discard_count[t] <= 1
    /\ CleanupCount(t) <= 1
    /\ Quiescent => (RetireCount(t) + discard_count[t] = 1 /\ CleanupCount(t) = 1)

(***************************************************************************)
(* C2. Once a task has failed (its failing retire has completed), no task  *)
(* transitively reachable from it over completion or BARRIER edges has its *)
(* closure invoked.                                                        *)
(***************************************************************************)
DiscardClosure ==
  [][\A u \in Tasks :
       closure_calls'[u] > closure_calls[u] =>
         \A t \in failed_tasks : u \notin Reachable(t)]_vars

(***************************************************************************)
(* C3. In the linear chain of CALLs, when the closure of task k returns a  *)
(* failure E: no later closure is ever invoked and no task is cleaned up   *)
(* twice; at quiescence every earlier task ran its closure once and got    *)
(* cleanup(OK), E is what the scope was failed with, task k got            *)
(* cleanup(ABORTED), every later task got cleanup(ABORTED) exactly once    *)
(* without running, and the scope status is E.                             *)
(***************************************************************************)
ChainMidFailure ==
  shape = "chain" =>
    \A k \in 1..ChainLen :
      closure_result[k] \in Failures =>
        /\ \A j \in (k + 1)..ChainLen : closure_calls[j] = 0
        /\ \A j \in Tasks : CleanupCount(j) <= 1
        /\ Quiescent =>
             /\ \A j \in 1..(k - 1) :
                  closure_calls[j] = 1 /\ cleanup_log[j] = <<OK>>
             /\ fail_log = <<closure_result[k]>>
             /\ retire_log[k] = <<closure_result[k]>>
             /\ cleanup_log[k] = <<ABORTED>>
             /\ \A j \in (k + 1)..ChainLen :
                  closure_calls[j] = 0 /\ cleanup_log[j] = <<ABORTED>>
             /\ permanent_status = closure_result[k]

\* the chain has drained after its second closure failed
ChainMidFailureWitness ==
  /\ shape = "chain"
  /\ Quiescent
  /\ closure_result[2] \in Failures
  /\ cleanup_log[ChainLen] = <<ABORTED>>

(***************************************************************************)
(* C4. At quiescence the pending_dependency_count of all tasks sums to     *)
(* zero.                                                                   *)
(***************************************************************************)
EdgeCountConservation == Quiescent => PendingSum = 0

(***************************************************************************)
(* C5. Every FENCE calls scope.end exactly once (at most once at any time, *)
(* once at quiescence) and the scope's outstanding count never goes below  *)
(* zero.                                                                   *)
(***************************************************************************)
ScopeBalance ==
  /\ pending_submissions >= 0
  /\ \A t \in Tasks :
       TaskType(shape, t) = "FENCE" =>
         /\ scope_end_calls[t] <= 1
         /\ Quiescent => scope_end_calls[t] = 1

(***************************************************************************)
(* C6. The scope's permanent status, once not OK, never changes again, and *)
(* it is one of the non-OK statuses some task passed to iree_task_retire.  *)
(***************************************************************************)
RetiredFailures ==
  (UNION {Range(retire_log[t]) : t \in Tasks}) \ {OK}

FirstFailureWins ==
  /\ [](permanent_status # OK => permanent_status \in RetiredFailures)
  /\ [][permanent_status # OK => permanent_status' = permanent_status]_vars

\* two tasks have failed with different statuses; the scope kept the first
FirstFailureWinsWitness ==
  /\ Len(fail_log) >= 2
  /\ fail_log[1] # fail_log[2]
  /\ permanent_status = fail_log[1]

(***************************************************************************)
(* C7. A task is on ready queues or pending submissions at most once at    *)
(* any instant, only with no dependency pending, and never while it is     *)
(* executing or after it has retired; of two predecessors retiring         *)
(* concurrently into the same task at most one saw it become ready.        *)
(***************************************************************************)
RECURSIVE PendingEnqueues(_, _)
PendingEnqueues(n, t) ==
  IF n = 0 THEN 0 ELSE pending_submission[n][t] + PendingEnqueues(n - 1, t)

\* times t is on a ready queue or in some worker's pending submission
Enqueued(t) == queued[t] + PendingEnqueues(NumWorkers, t)

NoDuplicateEnqueue ==
  /\ \A t \in Tasks :
       /\ Enqueued(t) <= 1
       /\ Enqueued(t) = 1 =>
            /\ pending_dependency_count[t] = 0
            /\ ~Executing(t)
            /\ retire_log[t] = <<>>
  /\ \A w1, w2 \in Workers :
       (/\ w1 # w2
        /\ pc[w1] \in {"retire_finish", "retire_flag", "discard"}
        /\ pc[w2] \in {"retire_finish", "retire_flag", "discard"}
        /\ l_completion[w1] # 0
        /\ l_completion[w1] = l_completion[w2])
       => ~(l_ready[w1] /\ l_ready[w2])

\* two predecessors of task 3 are inside iree_task_retire at the same time
\* and exactly one of them observed the prior count 1
NoDuplicateEnqueueWitness ==
  /\ shape = "join"
  /\ NumWorkers >= 2
  /\ pc[1] = "retire_finish" /\ pc[2] = "retire_finish"
  /\ l_completion[1] = 3 /\ l_completion[2] = 3
  /\ l_ready[1] # l_ready[2]

(***************************************************************************)
(* C8. Under fair scheduling of the workers every task of the graph is     *)
(* eventually retired or discarded: its cleanup eventually runs.           *)
(***************************************************************************)
AllCleanedUp == \A t \in Tasks : CleanupCount(t) >= 1

Progress == <>AllCleanedUp

\* a graph in which a closure failed has drained completely
ProgressWitness ==
  /\ Quiescent
  /\ AllCleanedUp
  /\ fail_log # <<>>
  /\ \E t \in Tasks : discard_count[t] > 0
  /\ \E t \in Tasks : "ABORTED" \in flags[t]

(***************************************************************************)
(* C9. In a sharded DISPATCH no tile index is given to the closure twice   *)
(* and none outside [0, tile_count) is; when no tile failed and the local  *)
(* memory request fits, every tile index (and every workgroup_xyz of the   *)
(* grid) has been processed exactly once when all shards have retired; a   *)
(* shard whose tiles all succeeded has left its loop only after a          *)
(* fetch_add returned a base >= tile_count.                                *)
(***************************************************************************)
NoTileFailed ==
  \A s \in ShardIds : iree_status_is_ok(shard[s].status) /\ ~shard[s].failed

LocalMemoryFits == local_memory_size <= local_memory_length

AllShardsRetired == d_pc \in {"ready", "retired", "discarded"}

InGrid(xyz, count) == \A a \in 1..3 : xyz[a] < count[a]

ShardCompleteness ==
  /\ \A i \in DOMAIN tile_calls :
       /\ tile_calls[i] <= 1
       /\ i >= tile_count => tile_calls[i] = 0
  /\ \A xyz \in DOMAIN xyz_calls : xyz_calls[xyz] <= 1
  /\ \A s \in ShardIds :
       (/\ shard[s].pc \in {"finish", "done"}
        /\ iree_status_is_ok(shard[s].status)
        /\ ~shard[s].failed
        /\ shard[s].retired # RESOURCE_EXHAUSTED)
       => shard[s].tile_base >= tile_count
  /\ (AllShardsRetired /\ NoTileFailed /\ LocalMemoryFits) =>
       /\ \A i \in DOMAIN tile_calls : i < tile_count => tile_calls[i] = 1
       /\ \A xyz \in DOMAIN xyz_calls :
            xyz_calls[xyz] = IF InGrid(xyz, workgroup_count) THEN 1 ELSE 0

\* two shards have drained a grid with reservations of two tiles; both left
\* their loops on a base past the end
ShardCompletenessWitness ==
  /\ d_pc = "retired"
  /\ NoTileFailed
  /\ LocalMemoryFits
  /\ tile_count >= 4
  /\ tiles_per_reservation = 2
  /\ shard[1].pc = "done" /\ shard[2].pc = "done"
  /\ shard[1].tile_base >= tile_count /\ shard[2].tile_base > shard[1].tile_base

(***************************************************************************)
(* C10. After slice-mode issue of a dispatch with no zero dimension the    *)
(* inclusive boxes of the slices are pairwise disjoint and their union is  *)
(* the whole grid.                                                         *)
(***************************************************************************)
InBox(xyz, sl) == \A a \in 1..3 : sl.base[a] <= xyz[a] /\ xyz[a] <= sl.range[a]

SlicesOf(xyz) == {i \in DOMAIN slices : InBox(xyz, slices[i])}

SliceCompleteness ==
  (d_pc = "running" /\ slices # <<>>) =>
    \A xyz \in SliceGrid :
      Cardinality(SlicesOf(xyz)) =
        IF InGrid(xyz, ResolvedCount) THEN 1 ELSE 0

(***************************************************************************)
(* C11. While no closure has failed, a task with an inbound completion     *)
(* edge T -> C has not begun (closure invoked, or retire entered) before T *)
(* entered iree_task_retire and took its completion edge; in the linear    *)
(* chain a task enters its retire only after its predecessor's retire has  *)
(* finished with OK, and at quiescence every task of the chain retired     *)
(* with OK and the scope status is OK.                                     *)
(***************************************************************************)
FailureFree == \A t \in Tasks : closure_result[t] \notin Failures

Begun(t) == closure_calls[t] > 0 \/ retire_log[t] # <<>>

CompletionOrder ==
  FailureFree =>
    /\ \A t \in Tasks :
         LET c == WiredCompletion(shape, t)
         IN (c # 0 /\ Begun(c)) =>
              (retire_log[t] = <<OK>> /\ completion_task[t] = 0)
    /\ shape = "chain" =>
         /\ \A j \in 2..(ChainLen + 1) :
              Begun(j) => cleanup_log[j - 1] = <<OK>>
         /\ Quiescent =>
              /\ \A j \in Tasks : retire_log[j] = <<OK>>
              /\ permanent_status = OK

\* the chain has drained with every closure returning OK
CompletionOrderWitness ==
  /\ shape = "chain"
  /\ Quiescent
  /\ \A j \in 1..ChainLen : closure_result[j] = OK /\ closure_calls[j] = 1
  /\ permanent_status = OK

(***************************************************************************)
(* C12. Retiring a BARRIER decrements each listed dependent exactly once   *)
(* (the dependent's count is its wired count less the passes of the        *)
(* barrier's loop over it and the completion edges already taken), and a   *)
(* step of the loop enqueues the dependent it decrements iff the count     *)
(* thereby reaches zero and touches no other task; no dependent has begun  *)
(* before the barrier's retire has decremented it, and one whose only      *)
(* predecessor is the barrier not before the barrier has retired; while no *)
(* closure has failed a dependent runs at most once, and exactly once at   *)
(* quiescence.                                                             *)
(***************************************************************************)
BarrierTasks == {t \in Tasks : TaskType(shape, t) = "BARRIER"}

\* how often the retire of barrier b has decremented d so far
BarrierPasses(b, d) ==
  LET deps == DependentTasks(shape, b)
      done == IF retire_log[b] # <<>> THEN Len(deps)
              ELSE IF \E w \in Workers : cur[w] = b /\ pc[w] = "execute"
                THEN l_index[CHOOSE w \in Workers : cur[w] = b]
              ELSE 0
  IN Cardinality({i \in DOMAIN deps :
                    i > Len(deps) - done /\ deps[i] = d})

\* completion edges into d whose source has taken the edge in its retire
EdgesTaken(d) ==
  Cardinality({u \in Tasks :
                 WiredCompletion(shape, u) = d /\ completion_task[u] = 0})

BarrierFanOutState ==
  \A b \in BarrierTasks :
    \A d \in Range(DependentTasks(shape, b)) :
      /\ BarrierPasses(b, d) <= 1
      /\ pending_dependency_count[d] =
           WiredPendingCount(shape, d) - BarrierPasses(b, d) - EdgesTaken(d)
      /\ Begun(d) => BarrierPasses(b, d) = 1
      /\ (Begun(d) /\ WiredPendingCount(shape, d) = 1) => retire_log[b] # <<>>
      /\ FailureFree =>
           /\ closure_calls[d] <= 1
           /\ Quiescent => (closure_calls[d] = 1 /\ retire_log[d] = <<OK>>)

BarrierFanOutStep ==
  \A w \in Workers :
    (/\ pc[w] = "execute"
     /\ cur[w] \in BarrierTasks
     /\ l_index'[w] = l_index[w] + 1)
    => LET deps == DependentTasks(shape, cur[w])
           d == deps[Len(deps) - l_index[w]]
       IN /\ pending_dependency_count' =
               [pending_dependency_count EXCEPT ![d] = @ - 1]
          /\ pending_submission' = [pending_submission EXCEPT ![w][d] =
               IF pending_dependency_count'[d] = 0 THEN @ + 1 ELSE @]
          /\ queued' = queued

BarrierFanOut == []BarrierFanOutState /\ [][BarrierFanOutStep]_vars

\* C12 as stated: a dependent that has begun has a barrier that has retired
BarrierRetiresFirst ==
  \A b \in BarrierTasks :
    \A d \in Range(DependentTasks(shape, b)) :
      Begun(d) => retire_log[b] # <<>>

\* the barrier has retired with no failure: it enqueued the dependent it
\* made ready and left alone the one that still waits for a completion edge
BarrierFanOutWitness ==
  /\ shape = "fanout"
  /\ FailureFree
  /\ retire_log[3] = <<OK>>
  /\ closure_calls[4] = 1
  /\ pending_dependency_count[5] = 1
  /\ Enqueued(5) = 0
  /\ closure_calls[5] = 0

(***************************************************************************)
(* C13. A DISPATCH, direct or indirect, whose resolved workgroup count has *)
(* no workgroup is retired by its issue, in slice mode and in shard mode:  *)
(* once issued it has retired with OK and got cleanup(OK), no SLICE and no *)
(* SHARD exists, no tile ran, and its completion task was enqueued exactly *)
(* when the dispatch was its last dependency (never discarded or flagged). *)
(***************************************************************************)
ZeroWorkgroups ==
  ResolvedCount[1] = 0 \/ ResolvedCount[2] = 0 \/ ResolvedCount[3] = 0

ZeroDispatch ==
  (ZeroWorkgroups /\ d_pc \notin {"none", "issue"}) =>
    /\ d_pc = "retired"
    /\ "DISPATCH_RETIRE" \in d_flags
    /\ d_retire_status = OK
    /\ d_cleanup = <<OK>>
    /\ d_scope_status = OK
    /\ d_pending = 0
    /\ \A s \in ShardIds : shard[s] = NoShard
    /\ slices = <<>>
    /\ \A i \in DOMAIN tile_calls : tile_calls[i] = 0
    /\ c_queued = (IF c_pending = 0 THEN 1 ELSE 0)
    /\ c_discards = 0
    /\ c_flags = {}

\* an indirect dispatch whose pointer read (0, 0, 0) was issued in slice
\* mode and made its completion task ready
ZeroDispatchWitness ==
  /\ issue_mode = "slice"
  /\ "DISPATCH_INDIRECT" \in d_flags
  /\ workgroup_count_ptr = <<0, 0, 0>>
  /\ d_pc = "retired"
  /\ c_pending = 0
  /\ c_queued = 1

(***************************************************************************)
(* C14. When slice-mode issue has finished, the number of SLICE tasks is   *)
(* the product over the axes of ceil(count / TILES_PER_SLICE); with        *)
(* TILES_PER_SLICE = (1, 1, 1) there is one slice per tile, each of one    *)
(* tile.                                                                   *)
(***************************************************************************)
CeilDiv(a, b) == (a + b - 1) \div b

SliceCountCeil ==
  (d_pc = "running" /\ issue_mode = "slice") =>
    /\ Len(slices) =
         CeilDiv(ResolvedCount[1], tiles_per_slice[1])
         * CeilDiv(ResolvedCount[2], tiles_per_slice[2])
         * CeilDiv(ResolvedCount[3], tiles_per_slice[3])
    /\ tiles_per_slice = <<1, 1, 1>> =>
         /\ Len(slices) = TotalWorkgroupCount(ResolvedCount)
         /\ \A i \in DOMAIN slices : slices[i].base = slices[i].range

(***************************************************************************)
(* C15. After shard-mode issue exactly min(tile_count, worker_count) SHARD *)
(* tasks exist, tile_count being the product of the resolved counts; each  *)
(* is wired into the DISPATCH: its pending_dependency_count is the number  *)
(* of shards not yet retired, so right after issue (no shard has begun) it *)
(* is the number of shards created.                                        *)
(***************************************************************************)
ShardsCreated == {s \in ShardIds : shard[s].pc # "none"}

ShardsLive == {s \in ShardIds : shard[s].pc \notin {"none", "done"}}

ShardIssue ==
  (issue_mode = "shard" /\ d_pc \notin {"none", "issue"}) =>
    /\ tile_count = workgroup_count[1] * workgroup_count[2] * workgroup_count[3]
    /\ Cardinality(ShardsCreated) =
         (IF tile_count < worker_count THEN tile_count ELSE worker_count)
    /\ d_pending = Cardinality(ShardsLive)
    /\ (\A s \in ShardsCreated : shard[s].pc = "queued") =>
         d_pending = Cardinality(ShardsCreated)

\* an indirect dispatch of two tiles was just issued to two workers
ShardIssueWitness ==
  /\ issue_mode = "shard"
  /\ d_pc = "running"
  /\ workgroup_count_ptr # <<0, 0, 0>>
  /\ tile_count = 2
  /\ worker_count = 2
  /\ \A s \in ShardsCreated : shard[s].pc = "queued"
  /\ d_pending = 2

(***************************************************************************)
(* C16. When every SHARD of a sharded DISPATCH has retired, no tile failed *)
(* and the local memory request fits, the shared tile cursor equals        *)
(* tile_count.                                                             *)
(***************************************************************************)
CursorAtEnd ==
  (issue_mode = "shard" /\ AllShardsRetired /\ NoTileFailed
   /\ LocalMemoryFits /\ iree_status_is_ok(d_status)
   /\ d_retire_status \in {"none", OK})
  => tile_index = tile_count

(***************************************************************************)
(* C17. No step invokes the closure of a CALL that carries the ABORTED     *)
(* flag, and no step invokes the tile closure of a DISPATCH that carries   *)
(* the ABORTED flag (the flag a failed predecessor left on it before it    *)
(* was issued).                                                            *)
(***************************************************************************)
AbortedSkipsClosure ==
  [][/\ \A t \in Tasks :
          closure_calls'[t] > closure_calls[t] => "ABORTED" \notin flags[t]
     /\ (\E i \in DOMAIN tile_calls : tile_calls'[i] > tile_calls[i]) =>
          "ABORTED" \notin d_flags]_vars

(***************************************************************************)
(* C18. When the scope's outstanding count is back at zero, every task the *)
(* FENCE brackets has been retired (iree_task_retire was entered for it)   *)
(* or discarded, so none is still queued or about to run its closure; in   *)
(* failing runs too.                                                       *)
(***************************************************************************)
Settled(t) == retire_log[t] # <<>> \/ discard_count[t] > 0

ScopeDrained ==
  pending_submissions <= 0 =>
    \A t \in Tasks : TaskType(shape, t) # "FENCE" => Settled(t)

(***************************************************************************)
(* C19. On a worker, a shard has retired before the next task begins to    *)
(* execute there (a shard retires inside its execute), and a DISPATCH      *)
(* retires only after the shards that began after it on the worker that    *)
(* issued it: its retire follows their retires, it does not precede them.  *)
(***************************************************************************)
\* task 0 is the dispatch, s > 0 one of its shards
TaskRetired(t) ==
  IF t = 0 THEN d_pc \in {"retired", "discarded"} ELSE shard[t].pc = "done"

\* pairs of positions of a worker's log, the earlier first
LogPairs(w) ==
  {p \in (DOMAIN begin_log[w]) \X (DOMAIN begin_log[w]) : p[1] < p[2]}

CleanedWithOK(t) == \E i \in DOMAIN cleanup_log[t] : cleanup_log[t][i] = OK

\* a CALL that was executed without its closure saw the flag when it began
FlaggedBeforeBegin(t) ==
  /\ TaskType(shape, t) = "CALL"
  /\ "ABORTED" \in flags[t]
  /\ retire_log[t] # <<>>
  /\ closure_calls[t] = 0

AbortedCleanup ==
  \A t \in Tasks : FlaggedBeforeBegin(t) => ~CleanedWithOK(t)

(***************************************************************************)
(* C21. While a slice or shard of a DISPATCH has not retired, the DISPATCH *)
(* is neither retired nor discarded and its completion task is neither     *)
(* enqueued, discarded nor flagged, whatever tile failed in a sibling; and *)
(* the siblings of a failed slice or shard keep executing: a slice that    *)
(* did not fail has run every tile of its box, and when a shard did not    *)
(* fail every tile has run once except those a failed shard left behind in *)
(* its reservation.                                                        *)
(***************************************************************************)
SlicesLive == {i \in DOMAIN slices : slices[i].pc # "done"}

\* a tile failed in some slice or shard
SomeTileFailed ==
  \/ \E s \in ShardIds : shard[s].failed \/ ~iree_status_is_ok(shard[s].status)
  \/ \E i \in DOMAIN slices :
       slices[i].failed \/ ~iree_status_is_ok(slices[i].status)

\* tile i is in the rest of the reservation a failed shard gave up
LeftBehind(i) ==
  \E s \in ShardIds :
    /\ shard[s].failed
    /\ shard[s].tile <= i
    /\ i < TileRange(shard[s].tile_base, tiles_per_reservation, tile_count)

SiblingsKeepRunning ==
  /\ (d_pc = "slicing" \/ ShardsLive # {} \/ SlicesLive # {}) =>
       /\ d_pc \in {"slicing", "running"}
       /\ d_retire_status = "none"
       /\ d_cleanup = <<>>
       /\ c_queued = 0
       /\ c_discards = 0
       /\ c_flags = {}
  /\ \A i \in DOMAIN slices :
       (slices[i].pc = "done" /\ ~slices[i].failed /\ slices[i].retired = OK)
       => \A xyz \in Grid : InBox(xyz, slices[i]) => xyz_calls[xyz] >= 1
  /\ (/\ issue_mode = "shard"
      /\ d_pc \notin {"issue", "none"}
      /\ ShardsLive = {}
      /\ LocalMemoryFits
      /\ \E s \in ShardsCreated : ~shard[s].failed)
     => \A i \in 0..(tile_count - 1) : tile_calls[i] = 1 \/ LeftBehind(i)

\* a shard failed on its tile, its sibling ran the other tile, and the
\* dispatch became ready only with the second retire
SiblingsKeepRunningWitness ==
  /\ issue_mode = "shard"
  /\ d_pc = "ready"
  /\ SomeTileFailed
  /\ ~iree_status_is_ok(d_status)
  /\ shard[1].failed /\ shard[1].pc = "done"
  /\ ~shard[2].failed /\ shard[2].pc = "done"
  /\ tile_calls[0] = 1 /\ tile_calls[1] = 1
  /\ c_queued = 0 /\ c_discards = 0 /\ c_flags = {}

(***************************************************************************)
(* C22. A slice or shard whose tile failed invokes no further tile and     *)
(* retires with OK; the first failure stored into the status slot of the   *)
(* DISPATCH stays there until the DISPATCH retires with it: the scope is   *)
(* failed with that status and the completion task is discarded or flagged *)
(* ABORTED, not enqueued. If no tile failed the DISPATCH retires with OK   *)
(* and its completion task is enqueued if that made it ready.              *)
(***************************************************************************)
SomeSubtaskFailed ==
  \/ \E s \in ShardIds : shard[s].failed
  \/ \E i \in DOMAIN slices : slices[i].failed

DispatchFailureState ==
  /\ \A s \in ShardIds : shard[s].failed => shard[s].retired = OK
  /\ \A i \in DOMAIN slices : slices[i].failed => slices[i].retired = OK
  /\ (d_pc = "retired" /\ LocalMemoryFits) =>
       IF SomeSubtaskFailed
         THEN /\ d_retire_status \in Failures
              /\ d_scope_status = d_retire_status
              /\ d_cleanup = <<ABORTED>>
              /\ c_queued = 0
              /\ (c_pending = 0 /\ c_discards = 1 /\ c_flags = {})
                 \/ (c_pending > 0 /\ c_discards = 0 /\ c_flags = {"ABORTED"})
         ELSE /\ d_retire_status = OK
              /\ d_scope_status = OK
              /\ d_cleanup = <<OK>>
              /\ c_queued = (IF c_pending = 0 THEN 1 ELSE 0)
              /\ c_discards = 0
              /\ c_flags = {}

\* the status a slice or shard is about to store: that of its failed tile
Storing(st) ==
  \/ \E s \in ShardIds :
       shard[s].pc = "finish" /\ shard'[s].pc = "done" /\ shard[s].status = st
  \/ \E i \in DOMAIN slices :
       slices[i].pc = "finish" /\ slices'[i].pc = "done"
       /\ slices[i].status = st

DispatchFailureStep ==
  /\ \A s \in ShardIds :
       (shard[s].failed \/ ~iree_status_is_ok(shard[s].status))
       => shard'[s].tile = shard[s].tile
  /\ \A i \in DOMAIN slices :
       (slices[i].failed \/ ~iree_status_is_ok(slices[i].status))
       => slices'[i].xyz = slices[i].xyz
  /\ \A st \in Failures :
       Storing(st) => d_status' = (IF d_status = OK THEN st ELSE d_status)
  /\ (d_status # OK /\ d_status' # d_status) =>
       (d_pc' = "retired" /\ d_retire_status' = d_status)

DispatchFailure == []DispatchFailureState /\ [][DispatchFailureStep]_vars

\* both shards failed, with different statuses; the dispatch retired with
\* the one stored first and flagged its completion task
DispatchFailureWitness ==
  /\ issue_mode = "shard"
  /\ d_pc = "retired"
  /\ shard[1].failed /\ shard[2].failed
  /\ tile_calls[0] = 1 /\ tile_calls[1] = 1
  /\ d_retire_status = "E2"
  /\ c_flags = {"ABORTED"}

(***************************************************************************)
(* C23. When the dispatch requests more local memory than the worker's     *)
(* span holds, no slice or shard invokes a tile closure, each retires with *)
(* RESOURCE_EXHAUSTED and the first to do so fails the scope with it; when *)
(* the span is large enough no slice or shard retires so, and every tile   *)
(* is handed a span of exactly the requested length.                       *)
(***************************************************************************)
\* the statuses the slices and shards that retired so far retired with
SubtaskRetires ==
  {shard[s].retired : s \in {x \in ShardIds : shard[x].pc = "done"}}
    \cup {slices[i].retired : i \in {x \in DOMAIN slices : slices[x].pc = "done"}}

NoTileInvoked ==
  /\ \A i \in DOMAIN tile_calls : tile_calls[i] = 0
  /\ \A xyz \in DOMAIN xyz_calls : xyz_calls[xyz] = 0

LocalMemoryExhausted ==
  IF LocalMemoryFits
    THEN /\ RESOURCE_EXHAUSTED \notin SubtaskRetires
         /\ d_scope_status # RESOURCE_EXHAUSTED
         /\ tile_memory \subseteq {local_memory_size}
    ELSE /\ NoTileInvoked
         /\ tile_memory = {}
         /\ SubtaskRetires \subseteq {RESOURCE_EXHAUSTED}
         /\ SubtaskRetires # {} => d_scope_status = RESOURCE_EXHAUSTED

\* a slice found the span too small and retired, failing the scope
LocalMemoryExhaustedWitness ==
  /\ issue_mode = "slice"
  /\ local_memory_size > local_memory_length
  /\ Len(slices) = 2
  /\ slices[1].pc = "done" /\ slices[1].retired = RESOURCE_EXHAUSTED
  /\ slices[2].pc = "queued"
  /\ d_scope_status = RESOURCE_EXHAUSTED

(***************************************************************************)
(* C24. A CALL whose closure wired nested tasks that complete into it is   *)
(* not retired while one of them is outstanding, is retired exactly once   *)
(* after they have all retired, and when its closure returned a failure E  *)
(* the retire carries E and the scope is failed with E.                    *)
(***************************************************************************)
\* the nested tasks the closure of task 1 has submitted
NestedWired ==
  {u \in Tasks \ {1} :
     /\ TaskType(shape, u) = "CALL"
     /\ \/ queued[u] > 0
        \/ \E w \in Workers : cur[w] = u
        \/ retire_log[u] # <<>>}

NestedCallRetire ==
  shape = "nested" =>
    /\ retire_log[1] # <<>> => \A u \in NestedWired : retire_log[u] # <<>>
    /\ Len(retire_log[1]) <= 1
    /\ (/\ Quiescent
        /\ NestedWired # {}
        /\ closure_calls[1] = 1
        /\ closure_result[1] \in Failures) =>
         /\ retire_log[1] = <<closure_result[1]>>
         /\ \E i \in DOMAIN fail_log : fail_log[i] = closure_result[1]

(***************************************************************************)
(* C25. Once the cleanup_fn of a task has run, no step reads or writes its *)
(* header again: its pending count is not decremented, its ABORTED flag is *)
(* not set, it is not enqueued and it is not pushed on a discard worklist. *)
(***************************************************************************)
CleanedUp(t) == cleanup_log[t] # <<>>

HeaderUntouched(t) ==
  /\ pending_dependency_count'[t] = pending_dependency_count[t]
  /\ flags'[t] = flags[t]
  /\ queued'[t] <= queued[t]
  /\ \A w \in Workers :
       /\ pending_submission'[w][t] <= pending_submission[w][t]
       /\ Occurrences(discard_worklist'[w], t)
            <= Occurrences(discard_worklist[w], t)

NoAccessAfterCleanup ==
  [][\A t \in Tasks : CleanedUp(t) => HeaderUntouched(t)]_vars

(***************************************************************************)
(* C26. Tasks 1 and 2 of the join graph both complete into task 3. When    *)
(* one of them retires with a failure and its decrement leaves task 3 not  *)
(* ready, task 3 carries the ABORTED flag before it can begin, so the      *)
(* closure of task 3 is never invoked.                                     *)
(***************************************************************************)
\* a predecessor of task 3 failed and its decrement did not make 3 ready:
\* it is about to store the flag, or has stored it
FailedWhileNotReady ==
  \/ \E w \in Workers :
       /\ pc[w] = "retire_finish"
       /\ cur[w] \in {1, 2}
       /\ ~iree_status_is_ok(l_status[w])
       /\ ~l_ready[w]
  \/ "ABORTED" \in flags[3]

AbortedBeforeBegin ==
  (shape = "join" /\ FailedWhileNotReady) => closure_calls[3] = 0

(***************************************************************************)
(* C27. iree_task_retire is entered only for a task whose pending count is *)
(* zero: a CALL after its closure returned, a NOP, BARRIER, FENCE or WAIT, *)
(* a DISPATCH retiring at issue or after its last slice/shard; and no      *)
(* pending count is ever negative.                                         *)
(***************************************************************************)
RetireEntryState ==
  /\ \A w \in Workers : pc[w] = "retire" => pending_dependency_count[cur[w]] = 0
  /\ \A t \in Tasks : pending_dependency_count[t] >= 0
  /\ d_pending >= 0
  /\ c_pending >= 0

\* the step in which the dispatch enters iree_task_retire
RetireEntryStep ==
  (d_pc # "retired" /\ d_pc' = "retired") => d_pending = 0

RetireEntry == []RetireEntryState /\ [][RetireEntryStep]_vars

\* the CALL of the nested graph enters retire after its nested tasks drained
RetireEntryWitness ==
  /\ shape = "nested"
  /\ closure_calls[1] = 2
  /\ \E w \in Workers : pc[w] = "retire" /\ cur[w] = 1

(***************************************************************************)
(* C28. While no closure has failed, the pending count of each task C is   *)
(* the number of tasks whose completion_task is C plus the number of       *)
(* BARRIERs that list C as a dependent and whose retire has not yet        *)
(* decremented C; the retire of a task clears its completion_task and      *)
(* lowers the count of that target by exactly one.                         *)
(***************************************************************************)
CompletionEdgesInto(c) ==
  Cardinality({t \in Tasks : completion_task[t] = c})

\* BARRIERs listing c whose retire loop has not passed c yet
BarriersPendingOn(c) ==
  Cardinality({b \in BarrierTasks :
                 /\ c \in Range(DependentTasks(shape, b))
                 /\ BarrierPasses(b, c) = 0})

\* BARRIERs listing c for which iree_task_retire has not been entered
BarriersNotRetiredOn(c) ==
  Cardinality({b \in BarrierTasks :
                 /\ c \in Range(DependentTasks(shape, b))
                 /\ retire_log[b] = <<>>})

PendingCountState ==
  FailureFree =>
    \A c \in Tasks :
      pending_dependency_count[c] = CompletionEdgesInto(c) + BarriersPendingOn(c)

PendingCountStep ==
  \A w \in Workers :
    (pc[w] = "retire" /\ pc'[w] = "retire_finish") =>
      LET t == cur[w]
          c == completion_task[t]
      IN /\ completion_task'[t] = 0
         /\ \A u \in Tasks :
              pending_dependency_count'[u] =
                pending_dependency_count[u] - (IF u = c THEN 1 ELSE 0)

PendingCount == []PendingCountState /\ [][PendingCountStep]_vars

\* C28 as stated: a BARRIER counts until it has retired
PendingCountUntilRetired ==
  FailureFree =>
    \A c \in Tasks :
      pending_dependency_count[c] =
        CompletionEdgesInto(c) + BarriersNotRetiredOn(c)

\* a barrier has decremented one of its two dependents and not yet the other
PendingCountWitness ==
  /\ FailureFree
  /\ \E b \in BarrierTasks : \E w \in Workers :
       /\ cur[w] = b /\ pc[w] = "execute" /\ l_index[w] = 1
       /\ Len(DependentTasks(shape, b)) = 2
       /\ retire_log[b] = <<>>

(***************************************************************************)
(* C29. Every slice and shard that the issue of a DISPATCH creates is      *)
(* posted to a worker index below worker_count that is a member of the     *)
(* dispatch's affinity set.                                                *)
(***************************************************************************)
\* the worker indices (from 0) that shards and slices were posted to
PostedTo ==
  {ShardWorker(s) - 1 : s \in ShardsCreated}
    \cup {slices[i].worker : i \in DOMAIN slices}

PostedWithinAffinity ==
  /\ PostedTo \subseteq 0..(worker_count - 1)
  /\ PostedTo \subseteq affinity_set

(***************************************************************************)
(* C30. A slice or shard acquired from the pool at issue is released to it *)
(* exactly once, as the last thing that happens to it and after any        *)
(* cleanup_fn, so that once the dispatch has retired no slot is            *)
(* outstanding; a task with no pool (the dispatch) is never released.      *)
(***************************************************************************)
Pooled(id) == Occurrences(task_pool[id], "acquire") > 0

PoolOutstanding ==
  {id \in DOMAIN task_pool :
     Pooled(id) /\ Occurrences(task_pool[id], "release") = 0}

PoolReleasedOnce ==
  /\ DOMAIN task_pool = PoolTasks \cup {0}
  /\ \A id \in DOMAIN task_pool :
       LET events == task_pool[id]
       IN /\ Occurrences(events, "release") <= 1
          /\ ~Pooled(id) => Occurrences(events, "release") = 0
          /\ Pooled(id) =>
               /\ events[1] = "acquire" /\ Occurrences(events, "acquire") = 1
               /\ (id \in PoolRetired) = (events[Len(events)] = "release")
  /\ ~Pooled(0)
  /\ d_pc \in {"retired", "discarded"} => PoolOutstanding = {}

\* the dispatch has retired after two shards, one of which had a failing
\* tile, and both slots are back in the pool
PoolReleasedOnceWitness ==
  /\ d_pc = "retired"
  /\ d_retire_status # OK
  /\ task_pool[0] = <<"cleanup_fn">>
  /\ Cardinality({id \in DOMAIN task_pool :
                    task_pool[id] = <<"acquire", "release">>}) = 2

(***************************************************************************)
(* C31. When the pool cannot supply a slice or shard during the issue, no  *)
(* NULL task is posted to a worker, and the DISPATCH is not left pending:  *)
(* once the issue is over and no slice or shard is left to run, it has     *)
(* been made ready, retired or discarded.                                  *)
(***************************************************************************)
SubtasksLive ==
  {s \in ShardIds : shard[s].pc \notin {"none", "null", "done"}}
    \cup {i \in DOMAIN slices : slices[i].pc \notin {"null", "done"}}

PoolExhaustionHandled ==
  /\ NullPosted = {}
  /\ (d_pc \notin {"issue", "slicing"} /\ SubtasksLive = {}) =>
       d_pc \in {"ready", "retired", "discarded"}

(***************************************************************************)
(* C32. The tile_count (shard mode) and the total workgroup count (slice   *)
(* mode) computed at issue are the exact product of the three counts, and  *)
(* a dispatch whose three counts are all non-zero is not treated as having *)
(* no workgroups (it is not retired by the issue).                         *)
(***************************************************************************)
ExactProduct == workgroup_count[1] * workgroup_count[2] * workgroup_count[3]

ExactTileCount ==
  d_pc # "issue" =>
    /\ issue_mode = "shard" => tile_count = ExactProduct
    /\ issue_mode = "slice" => TotalWorkgroupCount(workgroup_count) = ExactProduct
    /\ (\A a \in 1..3 : workgroup_count[a] # 0) => d_pc # "retired"

(***************************************************************************)
(* C33. The shard issue sets tiles_per_reservation to 1 when tile_count <  *)
(* worker_count * the configured maximum and to the maximum otherwise; a   *)
(* reservation of base b covers the indices b .. min(b + tiles_per_        *)
(* reservation, tile_count) - 1 (the shard runs them in turn, and a base   *)
(* below tile_count always has a tile to run), and the ranges of different *)
(* fetch-adds do not overlap: a new base lies at or past the end of every  *)
(* range handed out before, so no index is run twice.                      *)
(***************************************************************************)
ReservationEnd(s) ==
  iree_min(shard[s].tile_base + tiles_per_reservation, tile_count)

ReservationState ==
  (issue_mode = "shard" /\ d_pc \notin {"none", "issue"}) =>
    /\ tiles_per_reservation =
         IF tile_count < worker_count * max_tiles_per_reservation
           THEN 1 ELSE max_tiles_per_reservation
    /\ \A s \in ShardIds :
         shard[s].pc = "tile" =>
           /\ shard[s].tile_base <= shard[s].tile
           /\ shard[s].tile < ReservationEnd(s)
           /\ ReservationEnd(s) <= tile_index
    /\ \A s, t \in ShardIds :
         (s # t /\ shard[s].pc = "tile" /\ shard[t].pc = "tile") =>
           \/ ReservationEnd(s) <= shard[t].tile_base
           \/ ReservationEnd(t) <= shard[s].tile_base
    /\ \A i \in TileIndices : tile_calls[i] <= 1

ReservationStep ==
  \A s \in ShardIds :
    /\ (shard[s].pc = "reserve" /\ shard'[s] # shard[s]) =>
         /\ shard'[s].tile_base = tile_index
         /\ tile_index < tile_count => shard'[s].pc = "tile"
    /\ (shard[s].pc = "tile" /\ shard'[s].pc = "reserve") =>
         shard'[s].tile = ReservationEnd(s)

ReservationRanges == []ReservationState /\ [][ReservationStep]_vars


(***************************************************************************)
(* C34. The workgroup_xyz a shard computes for the linear tile index i is  *)
(* (i mod count_x, (i div count_x) mod count_y, i div (count_x * count_y));*)
(* over the indices below tile_count it is one-to-one and onto the grid    *)
(* [0, count_x) x [0, count_y) x [0, count_z), and x varies fastest: the   *)
(* next index has the next x, or x = 0 and the next y, or x = y = 0 and    *)
(* the next z. The closure is given that workgroup_xyz for the index.      *)
(***************************************************************************)
XFastestNext(xyz, count) ==
  IF xyz[1] + 1 < count[1] THEN <<xyz[1] + 1, xyz[2], xyz[3]>>
  ELSE IF xyz[2] + 1 < count[2] THEN <<0, xyz[2] + 1, xyz[3]>>
  ELSE <<0, 0, xyz[3] + 1>>

TileDecompositionState ==
  (issue_mode = "shard" /\ d_pc \notin {"none", "issue"}) =>
    LET count == workgroup_count
        tiles == 0..(tile_count - 1)
    IN /\ \A i \in tiles :
            /\ TileXYZ(i, count) =
                 <<i % count[1], (i \div count[1]) % count[2],
                   i \div (count[1] * count[2])>>
            /\ InGrid(TileXYZ(i, count), count)
            /\ (i + 1) \in tiles =>
                 TileXYZ(i + 1, count) = XFastestNext(TileXYZ(i, count), count)
       /\ \A i, j \in tiles :
            TileXYZ(i, count) = TileXYZ(j, count) => i = j
       /\ \A xyz \in Grid :
            InGrid(xyz, count) => \E i \in tiles : TileXYZ(i, count) = xyz

TileDecompositionStep ==
  \A s \in ShardIds :
    (shard[s].pc = "tile" /\ shard'[s] # shard[s]) =>
      LET i == shard[s].tile
          xyz == <<i % workgroup_count[1],
                   (i \div workgroup_count[1]) % workgroup_count[2],
                   i \div (workgroup_count[1] * workgroup_count[2])>>
      IN /\ tile_calls'[i] = tile_calls[i] + 1
         /\ xyz \in Grid =>
              xyz_calls' = [xyz_calls EXCEPT ![xyz] = @ + 1]

TileDecomposition ==
  []TileDecompositionState /\ [][TileDecompositionStep]_vars

\* a grid of more than one row and layer has been drained: the closure got
\* a workgroup with y > 0 and z > 0, and one with x > 0 on another grid
TileDecompositionWitness ==
  /\ AllShardsRetired
  /\ \E xyz \in Grid :
       /\ xyz_calls[xyz] = 1
       /\ \/ xyz[2] > 0 /\ xyz[3] > 0
          \/ xyz[1] > 0 /\ xyz[2] > 0

(***************************************************************************)
(* C35. A SLICE gives the closure the tiles of its inclusive box in        *)
(* Z-major order, each once: it starts at the base, the k-th call is the   *)
(* tile of rank k (z outermost, x innermost and fastest), the loops end    *)
(* after the tile of the last rank, and after the first tile that returns  *)
(* a failure the slice calls no tile any more.                             *)
(***************************************************************************)
BoxExtent(sl, a) == sl.range[a] - sl.base[a] + 1

\* the place of a tile in the Z-major order of the box, from 0
ZMajorRank(xyz, sl) ==
  ((xyz[3] - sl.base[3]) * BoxExtent(sl, 2) + (xyz[2] - sl.base[2]))
    * BoxExtent(sl, 1) + (xyz[1] - sl.base[1])

BoxSize(sl) == BoxExtent(sl, 1) * BoxExtent(sl, 2) * BoxExtent(sl, 3)

SliceOrderState ==
  \A i \in DOMAIN slices :
    /\ slices[i].pc = "queued" => slices[i].xyz = slices[i].base
    /\ slices[i].pc = "tile" =>
         /\ InBox(slices[i].xyz, slices[i])
         /\ iree_status_is_ok(slices[i].status)

SliceOrderStep ==
  \A i \in DOMAIN slices :
    /\ (slices[i].pc = "tile" /\ slices'[i] # slices[i]) =>
         LET xyz == slices[i].xyz
             k == ZMajorRank(xyz, slices[i])
         IN /\ xyz_calls'[xyz] = xyz_calls[xyz] + 1
            /\ \A other \in DOMAIN xyz_calls \ {xyz} :
                 xyz_calls'[other] = xyz_calls[other]
            /\ IF iree_status_is_ok(slices'[i].status)
                    /\ k + 1 < BoxSize(slices[i])
                 THEN /\ slices'[i].pc = "tile"
                      /\ InBox(slices'[i].xyz, slices[i])
                      /\ ZMajorRank(slices'[i].xyz, slices[i]) = k + 1
                 ELSE slices'[i].pc = "finish"
    /\ slices[i].pc \in {"finish", "done"} =>
         slices'[i].pc \in {"finish", "done"}

SliceOrder == []SliceOrderState /\ [][SliceOrderStep]_vars

\* a slice whose box is two tiles wide on two axes has run three of its
\* four tiles in Z-major order; the third one failed and ended its loops
SliceOrderWitness ==
  \E i \in DOMAIN slices :
    /\ slices[i].pc = "finish"
    /\ ~iree_status_is_ok(slices[i].status)
    /\ Cardinality({a \in 1..3 : BoxExtent(slices[i], a) > 1}) >= 2
    /\ \E xyz \in DOMAIN xyz_calls :
         /\ InBox(xyz, slices[i])
         /\ ZMajorRank(xyz, slices[i]) = 3
         /\ xyz_calls[xyz] = 0
    /\ \A xyz \in DOMAIN xyz_calls :
         (InBox(xyz, slices[i]) /\ ZMajorRank(xyz, slices[i]) < 3) =>
           xyz_calls[xyz] = 1

(***************************************************************************)
(* C36. Every slice the slice-mode issue creates is non-empty and in       *)
(* bounds, base <= range < workgroup_count on each axis, and the boxes of  *)
(* two slices of the dispatch have no tile in common: no workgroup_xyz is  *)
(* given to the closure by two slices.                                     *)
(***************************************************************************)
BoxesApart(a, b) ==
  \E axis \in 1..3 : a.range[axis] < b.base[axis] \/ b.range[axis] < a.base[axis]

SliceBoxes ==
  issue_mode = "slice" =>
    /\ \A i \in DOMAIN slices :
         \A axis \in 1..3 :
           /\ slices[i].base[axis] <= slices[i].range[axis]
           /\ slices[i].range[axis] < workgroup_count[axis]
    /\ \A i, j \in DOMAIN slices :
         i # j => BoxesApart(slices[i], slices[j])
    /\ \A xyz \in DOMAIN xyz_calls : xyz_calls[xyz] <= 1

\* a grid was cut into two slices of two tiles each and run: every tile of
\* both boxes was given to the closure once
SliceBoxesWitness ==
  /\ d_pc \in {"ready", "retired", "discarded"}
  /\ \E i, j \in DOMAIN slices :
       /\ i # j
       /\ BoxSize(slices[i]) > 1 /\ BoxSize(slices[j]) > 1
       /\ \A xyz \in DOMAIN xyz_calls :
            (InBox(xyz, slices[i]) \/ InBox(xyz, slices[j])) =>
              xyz_calls[xyz] = 1

(***************************************************************************)
(* C37. Every execution of a CALL that is not flagged ABORTED invokes its  *)
(* closure exactly once, a re-execution after its nested tasks resolved    *)
(* included, and an ABORTED one invokes nothing; the closure is invoked by *)
(* nothing else, so n executions without ABORTED make n invocations. The   *)
(* CALL enters iree_task_retire only at the end of an execution that has   *)
(* loaded a pending dependency count of zero.                              *)
(***************************************************************************)
CallExecutedBy(w) ==
  /\ pc[w] = "execute"
  /\ TaskType(shape, cur[w]) = "CALL"
  /\ pc'[w] # "execute"

CallExecuteStep ==
  /\ \A w \in Workers :
       CallExecutedBy(w) =>
         LET t == cur[w]
         IN /\ closure_calls'[t] =
                 closure_calls[t] + (IF "ABORTED" \in flags[t] THEN 0 ELSE 1)
            /\ retire_log'[t] # retire_log[t] <=>
                 pending_dependency_count'[t] = 0
  /\ \A t \in Tasks :
       (TaskType(shape, t) = "CALL"
        /\ (closure_calls'[t] # closure_calls[t]
            \/ retire_log'[t] # retire_log[t])) =>
         \E w \in Workers : CallExecutedBy(w) /\ cur[w] = t

CallExecutions == [][CallExecuteStep]_vars

\* the CALL of the nested shape wired nested tasks in its first execution,
\* was executed again when they had resolved, and retired then
CallExecutionsWitness ==
  /\ shape = "nested"
  /\ closure_calls[1] = 2
  /\ Len(retire_log[1]) = 1
  /\ pending_dependency_count[1] = 0

(***************************************************************************)
(* C38. iree_task_barrier_initialize_empty followed by one                 *)
(* iree_task_barrier_set_dependent_tasks(list) leaves the barrier and the  *)
(* pending counts as iree_task_barrier_initialize(list) does: the same     *)
(* type, count and list in the barrier, and every task's pending count     *)
(* raised by one per occurrence in the list (not at all for a task that is *)
(* not listed).                                                            *)
(***************************************************************************)
BarrierFields(b) == <<b.type, b.dependent_task_count, b.dependent_tasks>>

BothSetUp == \A side \in SetupSides : barrier_setup.barrier[side].pc = "done"

BarrierSetupEquivalent ==
  BothSetUp =>
    /\ BarrierFields(barrier_setup.barrier["empty"]) =
         BarrierFields(barrier_setup.barrier["initialize"])
    /\ BarrierFields(barrier_setup.barrier["initialize"]) =
         <<"BARRIER", Len(barrier_setup.list), barrier_setup.list>>
    /\ barrier_setup.pending_dependency_count["empty"] =
         barrier_setup.pending_dependency_count["initialize"]
    /\ \A t \in SetupTasks :
         barrier_setup.pending_dependency_count["initialize"][t] =
           barrier_setup.prior[t] + Occurrences(barrier_setup.list, t)

\* both set-ups are over for a list that names one task twice and leaves out
\* a task that had a dependency pending
BarrierSetupEquivalentWitness ==
  /\ BothSetUp
  /\ \E t, u \in SetupTasks :
       /\ Occurrences(barrier_setup.list, t) = 2
       /\ barrier_setup.prior[t] = 1
       /\ Occurrences(barrier_setup.list, u) = 0
       /\ barrier_setup.pending_dependency_count["empty"][u] = 1
=============================================================================
